---------------------------- MODULE Spec2Model ----------------------------
(***************************************************************************)
(* SajiloHire backend: the signal-extraction and composite-scoring core    *)
(* (services/scoring_engine.py), the AI scorer that writes the same        *)
(* tables (services/ai_scoring_engine.py), the chat writers of the         *)
(* transcript and the job-profile lookup, as a state machine over the      *)
(* database tables.                                                        *)
(*                                                                         *)
(* Numbers.  Python floats are modelled as exact rationals <<n, d>> with   *)
(* d > 0 in lowest terms, so a score is the real number the float          *)
(* approximates; float rounding is not modelled.                           *)
(*                                                                         *)
(* Text.  A text is a sequence of words (what str.split() returns); its    *)
(* length in characters is the words' lengths plus one space between two   *)
(* words.  Keyword tests are the code's: exact word membership, substring  *)
(* of a word, or substring of the whole text.                              *)
(***************************************************************************)
EXTENDS Integers, Sequences, FiniteSets, TLC

(***************************************************************************)
(* Exact rational arithmetic                                               *)
(***************************************************************************)
RECURSIVE GCD(_, _)
GCD(a, b) == IF b = 0 THEN a ELSE GCD(b, a % b)

Abs(x) == IF x < 0 THEN -x ELSE x

Q(n, d) ==
    LET g == GCD(Abs(n), d)
    IN  IF n = 0 THEN <<0, 1>> ELSE <<n \div g, d \div g>>

QInt(k) == <<k, 1>>

QLcm(a, b) == (a[2] \div GCD(a[2], b[2])) * b[2]

QAdd(a, b) ==
    LET l == QLcm(a, b)
    IN  Q(a[1] * (l \div a[2]) + b[1] * (l \div b[2]), l)

QNeg(a) == <<-a[1], a[2]>>

QSub(a, b) == QAdd(a, QNeg(b))

QMul(a, b) ==
    LET g1 == GCD(Abs(a[1]), b[2])
        g2 == GCD(Abs(b[1]), a[2])
    IN  IF a[1] = 0 \/ b[1] = 0 THEN <<0, 1>>
        ELSE <<(a[1] \div g1) * (b[1] \div g2), (a[2] \div g2) * (b[2] \div g1)>>

\* a / b for b > 0
QDiv(a, b) == QMul(a, <<b[2], b[1]>>)

QLe(a, b) ==
    LET l == QLcm(a, b)
    IN  a[1] * (l \div a[2]) <= b[1] * (l \div b[2])

QLt(a, b) == ~QLe(b, a)

QMin(a, b) == IF QLe(a, b) THEN a ELSE b

QMax(a, b) == IF QLe(a, b) THEN b ELSE a

RECURSIVE QSum(_)
QSum(s) == IF s = <<>> THEN <<0, 1>> ELSE QAdd(s[1], QSum(Tail(s)))

\* sum(s) / len(s), for a non-empty sequence of rationals
QAvg(s) == QDiv(QSum(s), QInt(Len(s)))

InUnit(a) == a[1] >= 0 /\ a[1] <= a[2]

Zero == <<0, 1>>
One == <<1, 1>>


(***************************************************************************)
(* Optional values (Python None)                                           *)
(***************************************************************************)
Null == [null |-> TRUE]

Some(v) == [null |-> FALSE, v |-> v]

(***************************************************************************)
(* Text: words, their length in characters, lower-casing, and the keyword  *)
(* lists of the analyzers.  Vocab is the bounded vocabulary every text of  *)
(* the model is written in.                                                *)
(***************************************************************************)
Vocab ==
    {"i", "and", "implement", "development", "architecture", "because",
     "career", "Career", "passionate", "40%", "company", "role", "research",
     "unfamiliar", "senior", "junior", "manager", "cloud", "excited", "love",
     "enjoy", "driven", "mid", "database"}

\* len(w)
WordLen(w) ==
    CASE w = "i" -> 1
      [] w \in {"and", "40%", "mid"} -> 3
      [] w \in {"role", "love"} -> 4
      [] w \in {"cloud", "enjoy"} -> 5
      [] w \in {"career", "Career", "senior", "junior", "driven"} -> 6
      [] w \in {"because", "company", "manager", "excited"} -> 7
      [] w \in {"research", "database"} -> 8
      [] w = "implement" -> 9
      [] w \in {"passionate", "unfamiliar"} -> 10
      [] w = "development" -> 11
      [] w = "architecture" -> 12

\* w.lower()
Lower(w) == IF w = "Career" THEN "career" ELSE w

\* The keywords of the lists below that occur in the (lower-case) word w as
\* a substring: Python's `kw in w`.  No two neighbouring words of the
\* vocabulary spell one of the lists' two-word keywords.
SubstringsOf(w) ==
    CASE w = "development" -> {"development", "develop"}
      [] w = "architecture" -> {"architecture", "architect"}
      [] w = "manager" -> {"manager"}
      [] w \in {"i", "and", "40%", "unfamiliar"} -> {}
      [] OTHER -> {w}

RECURSIVE SumLen(_)
SumLen(text) == IF text = <<>> THEN 0 ELSE WordLen(text[1]) + SumLen(Tail(text))

\* len(content): the words and one space between neighbours
CharLen(text) == IF text = <<>> THEN 0 ELSE SumLen(text) + Len(text) - 1

\* content.lower().split()
LowerWords(text) == [i \in 1..Len(text) |-> Lower(text[i])]

\* `kw in content.lower()` for a keyword without a space
TextContains(text, kw) == \E i \in 1..Len(text) : kw \in SubstringsOf(Lower(text[i]))

\* len([kw for kw in keywords if kw in content])
KeywordHits(text, keywords) == Cardinality({kw \in keywords : TextContains(text, kw)})

\* len([w for w in words if w in keywords])
WordHits(text, keywords) ==
    Cardinality({i \in 1..Len(text) : Lower(text[i]) \in keywords})

\* Python truthiness of an optional string
Truthy(opt) == ~opt.null /\ Len(opt.v) > 0

RECURSIVE Repeat(_, _)
Repeat(text, k) == IF k = 0 THEN <<>> ELSE text \o Repeat(text, k - 1)

technical_keywords ==
    {"implement", "develop", "design", "build", "create", "optimize", "scale"}

advanced_tech_terms ==
    {"architecture", "scalability", "optimization", "algorithm", "complexity",
     "performance", "distributed", "microservices", "api", "database",
     "framework", "library", "protocol", "encryption", "authentication",
     "deployment", "monitoring", "testing", "debugging", "refactoring"}

\* words of the vocabulary matched by one of the quantification_patterns
\* (r'\d+%' matches "40%" once; no other pattern matches a vocabulary word)
QuantMatches(w) == IF w = "40%" THEN 1 ELSE 0

structure_indicators ==
    {"first", "then", "next", "finally", "however", "therefore", "because",
     "since", "although", "while", "whereas", "problem", "solution",
     "approach", "strategy", "method"}

passion_keywords ==
    {"passionate", "excited", "love", "enjoy", "fascinated", "enthusiastic",
     "driven", "motivated", "inspired", "thrilled"}

specific_interests ==
    {"because", "specifically", "particularly", "especially", "unique",
     "innovative", "cutting-edge", "opportunity"}

future_thinking ==
    {"career", "growth", "future", "goals", "aspire", "develop", "learn",
     "advance", "contribute", "impact"}

company_specific ==
    {"company", "organization", "team", "culture", "values", "mission",
     "vision", "reputation", "known for", "leader in"}

role_specific ==
    {"position", "role", "opportunity", "challenge", "project", "work on",
     "build", "contribute to", "responsible for"}

research_indicators ==
    {"read about", "learned about", "research", "understand", "aware that",
     "know that", "seen that", "noticed"}

personal_passion ==
    {"passionate", "dedicated", "committed", "focused", "specialized",
     "experienced", "enjoy", "love"}

(***************************************************************************)
(* models.py: the enumerations of a chat turn                              *)
(***************************************************************************)
ChatTurnRole == {"user", "ai", "system"}

ChatTurnIntent == {"skill_probe", "motivation", "trap", "values", "scenario", "other"}

\* [turn for turn in chat_turns if turn.role == ChatTurnRole.USER]
UserTurns(chat_turns) == SelectSeq(chat_turns, LAMBDA t : t.role = "user")

\* the sequence [f(s[1]), ..., f(s[n])]
Map(f(_), s) == [i \in 1..Len(s) |-> f(s[i])]

RECURSIVE IntSum(_)
IntSum(s) == IF s = <<>> THEN 0 ELSE s[1] + IntSum(Tail(s))

\* sum((v - avg) ** 2 for v in vals) / len(vals), vals rationals
Variance(vals) ==
    LET avg == QAvg(vals)
        sq(v) == QMul(QSub(v, avg), QSub(v, avg))
    IN  QDiv(QSum(Map(sq, vals)), QInt(Len(vals)))

(***************************************************************************)
(* ScoringEngine._analyze_consistency                                      *)
(***************************************************************************)
LengthConsistency(user_turns) ==
    LET lengths == Map(LAMBDA t : QInt(Len(t.content)), user_turns)
        avg_length == QAvg(lengths)
        length_variance == Variance(lengths)
    IN  QMax(Zero, IF QLt(Zero, avg_length)
                   THEN QSub(One, QDiv(length_variance, QMul(avg_length, avg_length)))
                   ELSE Q(1, 2))

WordSet(text) == {Lower(text[i]) : i \in 1..Len(text)}

\* the Jaccard overlaps of the pairs i < j whose vocabularies are both non-empty
VocabOverlaps(user_turns) ==
    LET n == Len(user_turns)
        pairs == {pr \in (1..n) \X (1..n) :
                    /\ pr[1] < pr[2]
                    /\ WordSet(user_turns[pr[1]].content) # {}
                    /\ WordSet(user_turns[pr[2]].content) # {}}
        overlap(pr) ==
            LET v1 == WordSet(user_turns[pr[1]].content)
                v2 == WordSet(user_turns[pr[2]].content)
            IN  Q(Cardinality(v1 \cap v2), Cardinality(v1 \cup v2))
        RECURSIVE List(_)
        List(ps) == IF ps = {} THEN <<>>
                    ELSE LET pr == CHOOSE q \in ps : TRUE
                         IN  <<overlap(pr)>> \o List(ps \ {pr})
    IN  List(pairs)

Max2(a, b) == IF a >= b THEN a ELSE b

TechConsistency(user_turns) ==
    LET density(t) == Q(WordHits(t.content, technical_keywords), Max2(Len(t.content), 1))
        tech_densities == Map(density, user_turns)
        tech_variance == Variance(tech_densities)
    IN  QMax(Zero, QSub(One, QMul(tech_variance, QInt(10))))

\* the score when no factor is collected, for every transcript of three turns
_analyze_consistency_unfactored(chat_turns) ==
    IF Len(chat_turns) < 3 THEN Q(1, 2)
    ELSE IF UserTurns(chat_turns) = <<>> THEN Q(1, 2)
    ELSE Q(6, 10)

_analyze_consistency(chat_turns) ==
    LET user_turns == UserTurns(chat_turns)
        overlaps == VocabOverlaps(user_turns)
        consistency_factors ==
            (IF Len(user_turns) > 1 THEN <<LengthConsistency(user_turns)>> ELSE <<>>)
            \o (IF Len(user_turns) > 1 /\ overlaps # <<>> THEN <<QAvg(overlaps)>> ELSE <<>>)
            \o (IF Len(user_turns) > 1 THEN <<TechConsistency(user_turns)>> ELSE <<>>)
    IN  IF Len(chat_turns) < 3 THEN Q(1, 2)
        ELSE IF user_turns = <<>> THEN Q(1, 2)
        ELSE IF consistency_factors # <<>> THEN QAvg(consistency_factors)
        ELSE Q(6, 10)

(***************************************************************************)
(* ScoringEngine._analyze_depth                                            *)
(***************************************************************************)
\* max(words * frac, 1) for frac = 1/per
DensityBase(words, per) == QMax(Q(words, per), One)

SophisticationOf(t) ==
    LET words == LowerWords(t.content)
        tech_terms_count ==
            Cardinality({i \in 1..Len(words) :
                            SubstringsOf(words[i]) \cap advanced_tech_terms # {}})
    IN  QMin(QDiv(QInt(tech_terms_count), DensityBase(Len(words), 10)), One)

QuantificationOf(t) ==
    LET quantifications == IntSum(Map(QuantMatches, LowerWords(t.content)))
    IN  QMin(QDiv(QInt(quantifications), DensityBase(Len(t.content), 20)), One)

StructureOf(t) ==
    QMin(QDiv(QInt(WordHits(t.content, structure_indicators)),
              DensityBase(Len(t.content), 20)), One)

\* the plain average, whatever the number of factors
WeightedDepthPlain(depth_factors) == QAvg(depth_factors)

\* the weighted sum of four factors, the plain average of fewer
WeightedDepth(depth_factors) ==
    IF Len(depth_factors) >= 4
    THEN QSum(<<QMul(depth_factors[1], Q(2, 10)), QMul(depth_factors[2], Q(4, 10)),
                QMul(depth_factors[3], Q(25, 100)), QMul(depth_factors[4], Q(15, 100))>>)
    ELSE QAvg(depth_factors)

_analyze_depth(chat_turns) ==
    LET technical_turns ==
            SelectSeq(chat_turns, LAMBDA t : t.role = "user" /\ CharLen(t.content) > 50)
        avg_length == QAvg(Map(LAMBDA t : QInt(CharLen(t.content)), technical_turns))
        length_score == QMin(QDiv(avg_length, QInt(400)), One)
        depth_factors ==
            <<length_score,
              QAvg(Map(SophisticationOf, technical_turns)),
              QAvg(Map(QuantificationOf, technical_turns)),
              QAvg(Map(StructureOf, technical_turns))>>
    IN  IF technical_turns = <<>> THEN Q(3, 10)
        ELSE QMin(WeightedDepth(depth_factors), One)

(***************************************************************************)
(* ScoringEngine._analyze_motivation                                       *)
(***************************************************************************)
TurnMotivation(t) ==
    LET passion_score == Q(KeywordHits(t.content, passion_keywords), 10)
        specificity_score == Q(KeywordHits(t.content, specific_interests), 8)
        future_score == Q(KeywordHits(t.content, future_thinking), 10)
        depth_score == QMin(Q(CharLen(t.content), 200), One)
        turn_motivation ==
            QSum(<<QMul(passion_score, Q(3, 10)), QMul(specificity_score, Q(25, 100)),
                   QMul(future_score, Q(25, 100)), QMul(depth_score, Q(2, 10))>>)
    IN  QMin(turn_motivation, One)

WhyUsMotivation(why_us) ==
    LET company_score == Q(KeywordHits(why_us, company_specific), 10)
        role_score == Q(KeywordHits(why_us, role_specific), 10)
        research_score == Q(KeywordHits(why_us, research_indicators), 8)
        why_us_motivation ==
            QSum(<<QMul(company_score, Q(4, 10)), QMul(role_score, Q(3, 10)),
                   QMul(research_score, Q(3, 10))>>)
    IN  QMin(why_us_motivation, One)

IntroMotivation(intro) == QMin(Q(KeywordHits(intro, personal_passion), 8), One)

\* the sub-scores collected from the three sources, in the code's order
MotivationFactors(chat_turns, person) ==
    LET motivation_turns ==
            SelectSeq(chat_turns, LAMBDA t : t.intent = "motivation")
    IN  Map(TurnMotivation, UserTurns(motivation_turns))
        \o (IF Truthy(person.why_us) /\ CharLen(person.why_us.v) > 20
            THEN <<WhyUsMotivation(person.why_us.v)>> ELSE <<>>)
        \o (IF Truthy(person.intro) /\ CharLen(person.intro.v) > 30
            THEN <<IntroMotivation(person.intro.v)>> ELSE <<>>)

\* absence of motivation data scored as zero
_analyze_motivation_zero_default(chat_turns, person) ==
    LET motivation_factors == MotivationFactors(chat_turns, person)
        avg_motivation == QAvg(motivation_factors)
    IN  IF motivation_factors # <<>>
        THEN IF Len(motivation_factors) > 1
             THEN QMin(QMul(avg_motivation, Q(11, 10)), One)
             ELSE avg_motivation
        ELSE Zero

_analyze_motivation(chat_turns, person) ==
    LET motivation_factors == MotivationFactors(chat_turns, person)
        avg_motivation == QAvg(motivation_factors)
    IN  IF motivation_factors # <<>>
        THEN IF Len(motivation_factors) > 1
             THEN QMin(QMul(avg_motivation, Q(11, 10)), One)
             ELSE avg_motivation
        ELSE Q(4, 10)

(***************************************************************************)
(* The remaining signals of ScoringEngine._extract_signals                 *)
(***************************************************************************)
_analyze_culture_fit(chat_turns) ==
    IF \E i \in 1..Len(chat_turns) : chat_turns[i].intent = "values"
    THEN Q(8, 10) ELSE Q(6, 10)

_compute_turnover_risk(person, chat_turns) ==
    LET base_risk == Q(3, 10)
        scenario_turns ==
            SelectSeq(chat_turns,
                      LAMBDA t : t.role = "user" /\ TextContains(t.content, "career"))
    IN  IF scenario_turns # <<>>
        THEN QMax(QSub(base_risk, Q(1, 10)), Q(1, 10))
        ELSE base_risk

\* settings.CHAT_MIN_TURNS
CHAT_MIN_TURNS == 5

\* Python truthiness of an optional URL string (linkedin, github)
TruthyStr(opt) == ~opt.null /\ opt.v # ""

_compute_data_confidence(chat_turns, person) ==
    LET chat_completeness == QMin(Q(Len(chat_turns), CHAT_MIN_TURNS * 2), One)
        resume_quality ==
            IF Truthy(person.resume_text) /\ CharLen(person.resume_text.v) > 100
            THEN One ELSE Q(1, 2)
        filled == (IF Truthy(person.intro) THEN 1 ELSE 0)
                  + (IF Truthy(person.why_us) THEN 1 ELSE 0)
                  + (IF TruthyStr(person.linkedin) THEN 1 ELSE 0)
                  + (IF TruthyStr(person.github) THEN 1 ELSE 0)
        profile_completeness == Q(filled, 4)
    IN  QAvg(<<chat_completeness, resume_quality, profile_completeness>>)

_check_credibility(chat_turns) ==
    \E i \in 1..Len(chat_turns) :
        /\ chat_turns[i].intent = "trap"
        /\ chat_turns[i].role = "user"
        /\ CharLen(chat_turns[i].content) > 20

\* len(person.skills_tags) raises TypeError when skills_tags is None
ExtractFlagsRaises(person) == person.skills_tags.null

_extract_flags(chat_turns, person) ==
    LET user_turns == UserTurns(chat_turns)
        avg_response_length ==
            IF user_turns # <<>>
            THEN QAvg(Map(LAMBDA t : QInt(CharLen(t.content)), user_turns))
            ELSE Zero
    IN  (IF QLt(QInt(200), avg_response_length) THEN <<"detailed-responses">> ELSE <<>>)
        \o (IF Len(person.skills_tags.v) > 7 THEN <<"diverse-skills">> ELSE <<>>)
        \o (IF TruthyStr(person.github) /\ TruthyStr(person.linkedin)
            THEN <<"strong-online-presence">> ELSE <<>>)

\* The values _extract_signals computes for the CandidateSignals row
ExtractedSignals(person, chat_turns) ==
    [person_local_id |-> person.id,
     consistency_score |-> _analyze_consistency(chat_turns),
     depth_score |-> _analyze_depth(chat_turns),
     motivation_alignment |-> _analyze_motivation(chat_turns, person),
     culture_alignment |-> _analyze_culture_fit(chat_turns),
     turnover_risk |-> _compute_turnover_risk(person, chat_turns),
     data_confidence |-> _compute_data_confidence(chat_turns, person),
     credibility_flag |-> _check_credibility(chat_turns),
     flags |-> _extract_flags(chat_turns, person)]

(***************************************************************************)
(* ScoringEngine._compute_role_fit and its helpers                         *)
(***************************************************************************)
\* skill.lower() for the skill names of the model
SkillLower(skill) ==
    CASE skill = "Python" -> "python"
      [] skill = "AWS" -> "aws"
      [] OTHER -> skill

\* set(person.skills_tags or [])
SkillSet(person) ==
    IF person.skills_tags.null THEN {}
    ELSE {person.skills_tags.v[i] : i \in 1..Len(person.skills_tags.v)}

level_indicators ==
    [junior |-> {"junior", "entry", "associate", "trainee", "0-2 years", "1 year"},
     mid |-> {"mid", "intermediate", "2-5 years", "3 years", "4 years"},
     senior |-> {"senior", "lead", "principal", "5+ years", "6 years", "7 years",
                 "8+ years"},
     management |-> {"manager", "director", "head", "vp", "team lead"}]

level_hierarchy == <<"junior", "mid-level", "senior", "management">>

LevelIndex(level) == CHOOSE i \in 1..Len(level_hierarchy) : level_hierarchy[i] = level

\* candidate_level_scores, in the insertion order of level_indicators
CandidateLevelScores(person) ==
    LET resume_text == IF Truthy(person.resume_text) THEN person.resume_text.v ELSE <<>>
    IN  <<KeywordHits(resume_text, level_indicators.junior),
          KeywordHits(resume_text, level_indicators.mid),
          KeywordHits(resume_text, level_indicators.senior),
          KeywordHits(resume_text, level_indicators.management)>>

\* the last level, in insertion order, with the greatest count
CandidateLevelLastTied(person) ==
    LET scores == CandidateLevelScores(person)
        best == CHOOSE i \in 1..4 :
                    /\ \A j \in 1..4 : scores[j] <= scores[i]
                    /\ \A j \in (i + 1)..4 : scores[j] < scores[i]
    IN  level_hierarchy[best]

\* max(candidate_level_scores, key=candidate_level_scores.get): the first
\* level, in insertion order, with the greatest count
CandidateLevel(person) ==
    LET scores == CandidateLevelScores(person)
        best == CHOOSE i \in 1..4 :
                    /\ \A j \in 1..4 : scores[j] <= scores[i]
                    /\ \A j \in 1..(i - 1) : scores[j] < scores[i]
    IN  level_hierarchy[best]

\* a match that gives adjacent levels no credit over distant ones
_compute_experience_level_match_exact(person, required_level) ==
    IF CandidateLevel(person) = required_level THEN One ELSE Q(4, 10)

_compute_experience_level_match(person, required_level) ==
    LET candidate_level == CandidateLevel(person)
    IN  IF candidate_level = required_level THEN One
        ELSE IF Abs(LevelIndex(candidate_level) - LevelIndex(required_level)) = 1
        THEN Q(7, 10)
        ELSE Q(4, 10)

focus_skill_mapping(focus_area) ==
    CASE focus_area = "Machine Learning" ->
            {"python", "tensorflow", "pytorch", "scikit-learn", "ml", "ai"}
      [] focus_area = "Web Development" ->
            {"javascript", "react", "angular", "vue", "html", "css", "nodejs"}
      [] focus_area = "Data Science" ->
            {"python", "r", "pandas", "numpy", "sql", "tableau", "spark"}
      [] focus_area = "Devops" ->
            {"docker", "kubernetes", "aws", "azure", "jenkins", "terraform"}
      [] focus_area = "Mobile" ->
            {"ios", "android", "react native", "flutter", "swift", "kotlin"}
      [] focus_area = "Security" ->
            {"cybersecurity", "encryption", "penetration testing", "security"}
      [] focus_area = "Database" ->
            {"sql", "nosql", "mongodb", "postgresql", "mysql", "redis"}
      [] OTHER -> {}

_compute_technical_alignment(person, job_info) ==
    LET technical_focus == job_info.technical_focus
        candidate_skills == {SkillLower(sk) : sk \in SkillSet(person)}
        mapped == SelectSeq(technical_focus, LAMBDA f : focus_skill_mapping(f) # {})
        score(f) ==
            QMin(Q(Cardinality(candidate_skills \cap focus_skill_mapping(f)), 3), One)
        alignment_scores == Map(score, mapped)
    IN  IF technical_focus = <<>> THEN Q(8, 10)
        ELSE IF alignment_scores # <<>> THEN QAvg(alignment_scores)
        ELSE Q(5, 10)

\* The job profile of get_comprehensive_job_profile: {} or the profile built
\* from a cached job and the job's upstream skills
EmptyProfile == [empty |-> TRUE]

SeqToSet(s) == {s[i] : i \in 1..Len(s)}

SkillMatchOverCandidate(candidate_skills, job_skills) ==
    Q(Cardinality(candidate_skills \cap job_skills),
      Max2(Cardinality(candidate_skills), 1))

\* lines 157-158: the share of the job's skills the candidate names
SkillMatch(candidate_skills, job_skills) ==
    Q(Cardinality(candidate_skills \cap job_skills), Max2(Cardinality(job_skills), 1))

_compute_role_fit(person, signals, job_profile) ==
    IF job_profile.empty
    THEN LET skills_count == IF person.skills_tags.null THEN 0
                             ELSE Len(person.skills_tags.v)
             base_fit == QMin(Q(skills_count, 5), One)
             role_fit == QDiv(QAdd(base_fit, signals.depth_score), QInt(2))
         IN  QMin(role_fit, One)
    ELSE LET candidate_skills == SkillSet(person)
             mandatory_skills == SeqToSet(job_profile.mandatory_skills)
             key_skills == SeqToSet(job_profile.key_skills)
             mandatory_match == SkillMatch(candidate_skills, mandatory_skills)
             key_skill_match == SkillMatch(candidate_skills, key_skills)
             experience_match ==
                 _compute_experience_level_match(person, job_profile.role_level)
             technical_focus_alignment ==
                 _compute_technical_alignment(person, job_profile)
             role_fit ==
                 QSum(<<QMul(mandatory_match, Q(4, 10)),
                        QMul(key_skill_match, Q(25, 100)),
                        QMul(experience_match, Q(20, 100)),
                        QMul(technical_focus_alignment, Q(15, 100))>>)
             final_fit == QAdd(QMul(role_fit, Q(8, 10)),
                               QMul(signals.depth_score, Q(2, 10)))
         IN  QMin(final_fit, One)

(***************************************************************************)
(* config.py: the scoring configuration, and the composite score of        *)
(* ScoringEngine.compute_score                                             *)
(***************************************************************************)
SCORING_WEIGHTS ==
    [role_fit |-> Q(35, 100), capability_depth |-> Q(20, 100),
     motivation_alignment |-> Q(15, 100),
     reliability_inverse_turnover |-> Q(15, 100), data_confidence |-> Q(15, 100)]

SCORING_THRESHOLDS == [top |-> Q(75, 100), borderline |-> Q(50, 100)]

FRAUD_PENALTY_MULTIPLIER == Q(25, 100)

\* the Settings object with the defaults of config.py; pydantic reads each
\* field from the environment or .env when it is set there
DefaultSettings ==
    [SCORING_WEIGHTS |-> SCORING_WEIGHTS,
     SCORING_THRESHOLDS |-> SCORING_THRESHOLDS,
     FRAUD_PENALTY_MULTIPLIER |-> FRAUD_PENALTY_MULTIPLIER]

\* ScoringEngine.__init__: the three settings are copied as they are
ScoringEngine(settings) ==
    [weights |-> settings.SCORING_WEIGHTS,
     thresholds |-> settings.SCORING_THRESHOLDS,
     fraud_penalty |-> settings.FRAUD_PENALTY_MULTIPLIER]

VARIABLE
    scoring_engine        \* the module-level ScoringEngine instance

RawScoreWithCulture(role_fit, signals) ==
    QSum(<<QMul(role_fit, scoring_engine.weights.role_fit),
           QMul(signals.depth_score, scoring_engine.weights.capability_depth),
           QMul(signals.motivation_alignment, scoring_engine.weights.motivation_alignment),
           QMul(QSub(One, signals.turnover_risk), scoring_engine.weights.reliability_inverse_turnover),
           QMul(signals.culture_alignment, scoring_engine.weights.data_confidence)>>)

\* raw_score, lines 43-49
RawScore(role_fit, signals) ==
    LET reliability == QSub(One, signals.turnover_risk)
    IN  QSum(<<QMul(role_fit, scoring_engine.weights.role_fit),
               QMul(signals.depth_score, scoring_engine.weights.capability_depth),
               QMul(signals.motivation_alignment, scoring_engine.weights.motivation_alignment),
               QMul(reliability, scoring_engine.weights.reliability_inverse_turnover),
               QMul(signals.data_confidence, scoring_engine.weights.data_confidence)>>)

ConfidenceMultiplierLinear(signals) == signals.data_confidence

ConfidenceMultiplierUncentred(signals) == QAdd(One, QMul(Q(1, 2), signals.data_confidence))

\* confidence_multiplier, line 52
ConfidenceMultiplier(signals) == QAdd(Q(1, 2), QMul(Q(1, 2), signals.data_confidence))

\* adjusted_score before the penalty, line 53
ConfidenceAdjusted(role_fit, signals) ==
    QMul(RawScore(role_fit, signals), ConfidenceMultiplier(signals))

FraudPenaltySkipped(adjusted_score, credibility_flag) == adjusted_score

FraudPenaltyUnscaled(adjusted_score, credibility_flag) ==
    IF credibility_flag THEN QMul(adjusted_score, One) ELSE adjusted_score

\* adjusted_score after lines 56-57
FraudPenalty(adjusted_score, credibility_flag) ==
    IF credibility_flag THEN QMul(adjusted_score, scoring_engine.fraud_penalty)
    ELSE adjusted_score

AdjustedScore(role_fit, signals) ==
    FraudPenalty(ConfidenceAdjusted(role_fit, signals), signals.credibility_flag)

_determine_fit_bucket_exclusive(score) ==
    IF QLt(scoring_engine.thresholds.top, score) THEN "top"
    ELSE IF QLt(scoring_engine.thresholds.borderline, score) THEN "borderline"
    ELSE "low"

_determine_fit_bucket_swapped(score) ==
    IF QLe(scoring_engine.thresholds.top, score) THEN "borderline"
    ELSE IF QLe(scoring_engine.thresholds.borderline, score) THEN "top"
    ELSE "low"

_determine_fit_bucket(score) ==
    IF QLe(scoring_engine.thresholds.top, score) THEN "top"
    ELSE IF QLe(scoring_engine.thresholds.borderline, score) THEN "borderline"
    ELSE "low"

(***************************************************************************)
(* services/job_profile_service.py: the job profile                        *)
(***************************************************************************)
_determine_role_level(title, description) ==
    LET combined_text == title \o (IF description.null THEN <<>> ELSE description.v)
        has(terms) == \E term \in terms : TextContains(combined_text, term)
    IN  IF has({"senior", "lead", "principal", "staff", "architect"}) THEN "senior"
        ELSE IF has({"junior", "entry", "associate", "trainee"}) THEN "junior"
        ELSE IF has({"manager", "director", "head", "vp"}) THEN "management"
        ELSE "mid-level"

\* focus_keywords, in insertion order; the area names are already in the
\* form area.replace('_', ' ').title()
focus_keywords ==
    <<[area |-> "Machine Learning",
       keywords |-> {"ml", "machine learning", "ai", "artificial intelligence",
                     "deep learning"}],
      [area |-> "Web Development",
       keywords |-> {"web", "frontend", "backend", "full-stack", "ui/ux"}],
      [area |-> "Data Science",
       keywords |-> {"data science", "analytics", "big data", "data analysis"}],
      [area |-> "Devops",
       keywords |-> {"devops", "infrastructure", "deployment", "ci/cd", "cloud"}],
      [area |-> "Mobile",
       keywords |-> {"mobile", "ios", "android", "react native", "flutter"}],
      [area |-> "Security",
       keywords |-> {"security", "cybersecurity", "encryption", "penetration testing"}],
      [area |-> "Database",
       keywords |-> {"database", "sql", "nosql", "data modeling"}]>>

_extract_technical_focus(description) ==
    IF ~Truthy(description) THEN <<>>
    ELSE LET hit == SelectSeq(focus_keywords,
                              LAMBDA f : \E k \in f.keywords : TextContains(description.v, k))
             focus_areas == Map(LAMBDA f : f.area, hit)
         IN  SubSeq(focus_areas, 1, IF Len(focus_areas) < 3 THEN Len(focus_areas) ELSE 3)

\* The profile built at lines 72-94 from the cached job row and the job's
\* skills, reduced to the entries the scoring engine reads
BuildJobProfile(job, job_skills) ==
    [empty |-> FALSE,
     role_level |-> _determine_role_level(job.title, job.description),
     technical_focus |-> _extract_technical_focus(job.description),
     key_skills |->
        Map(LAMBDA sk : sk.skillName,
            SubSeq(job_skills, 1, IF Len(job_skills) < 5 THEN Len(job_skills) ELSE 5)),
     mandatory_skills |->
        Map(LAMBDA sk : sk.skillName, SelectSeq(job_skills, LAMBDA sk : sk.isMandatory))]

(***************************************************************************)
(* Bounds and the inputs the model draws from                              *)
(***************************************************************************)
\* most chat turns a person's transcript holds
MaxTurns == 3

Sessions == {1, 2}

MsgShort == <<"i", "implement">>

MsgMid == <<"i", "implement", "architecture", "because">>

MsgDeep ==
    <<"i", "implement", "architecture", "because", "Career", "passionate", "40%",
      "and", "research">>

MsgLong == Repeat(MsgDeep, 7)

AiText == <<"because", "company", "role">>

ResumeShort == <<"junior", "role">>

ResumeSenior == Repeat(<<"senior", "development", "architecture", "manager">>, 4)

IntroText == <<"i", "passionate", "and", "career", "development", "research">>

WhyUsText == <<"company", "role", "research", "because">>

\* the jobs the upstream API knows: get_all_jobs() and
\* get_job_skills_by_job_id()
UpstreamJobs ==
    (101 :> [title |-> <<"senior", "development", "role">>,
             description |-> Some(<<"cloud", "company">>),
             skills |-> <<[skillName |-> "python", isMandatory |-> TRUE],
                          [skillName |-> "aws", isMandatory |-> TRUE],
                          [skillName |-> "docker", isMandatory |-> FALSE]>>])
    @@ (103 :> [title |-> <<"junior", "role">>,
                description |-> Some(<<"company">>),
                skills |-> <<[skillName |-> "python", isMandatory |-> FALSE],
                             [skillName |-> "sql", isMandatory |-> FALSE]>>])
    @@ (104 :> [title |-> <<"manager">>,
                description |-> Some(<<"cloud", "database">>),
                skills |-> <<[skillName |-> "sql", isMandatory |-> TRUE],
                             [skillName |-> "docker", isMandatory |-> FALSE],
                             [skillName |-> "kubernetes", isMandatory |-> FALSE]>>])
    @@ (105 :> [title |-> <<"development", "role">>,
                description |-> Null,
                skills |-> <<[skillName |-> "python", isMandatory |-> TRUE]>>])

\* job ids a person may have applied to; 102 is unknown upstream
JobIds == {101, 102}

PersonBare(id, job) ==
    [id |-> id, job_id |-> job, skills_tags |-> Some(<<>>), resume_text |-> Null,
     intro |-> Null, why_us |-> Null, linkedin |-> Null, github |-> Null]

PersonMid(id, job) ==
    [id |-> id, job_id |-> job,
     skills_tags |-> Some(<<"python", "sql", "react", "kubernetes">>),
     resume_text |-> Some(ResumeShort), intro |-> Null, why_us |-> Some(WhyUsText),
     linkedin |-> Some("https://linkedin.com/in/c"), github |-> Null]

PersonFull(id, job) ==
    [id |-> id, job_id |-> job,
     skills_tags |-> Some(<<"Python", "aws", "docker", "sql", "react", "tensorflow",
                           "kubernetes", "azure">>),
     resume_text |-> Some(ResumeSenior), intro |-> Some(IntroText),
     why_us |-> Some(WhyUsText), linkedin |-> Some("https://linkedin.com/in/c"),
     github |-> Some("https://github.com/c")]

PersonNoSkills(id, job) ==
    [id |-> id, job_id |-> job, skills_tags |-> Null, resume_text |-> Some(<<>>),
     intro |-> Null, why_us |-> Null, linkedin |-> Some(""), github |-> Null]

Profiles(id) ==
    {mk : mk \in UNION {{PersonBare(id, j), PersonMid(id, j), PersonFull(id, j),
                         PersonNoSkills(id, j)} : j \in JobIds}}

\* the candidates the service is run with
ServiceProfiles(id) ==
    {PersonFull(id, 101), PersonNoSkills(id, 102)}

\* a candidate who names the one skill python
PersonPython(id, job) ==
    [PersonBare(id, job) EXCEPT !.skills_tags = Some(<<"python">>)]

\* the candidate's honest reply to the trap question (test_api.py line 88):
\* the technology is unfamiliar
MsgHonest == <<"i", "unfamiliar", "architecture", "because", "research">>

(***************************************************************************)
(* State: the database tables, and the requests in progress                *)
(***************************************************************************)
VARIABLES
    extended_persons,     \* id -> ExtendedPerson row
    extended_job_cache,   \* upstream_job_id -> ExtendedJobCache row (unique)
    chat_turns,           \* the ChatTurn rows, in insertion order
    candidate_signals,    \* person_local_id -> CandidateSignals row (unique)
    candidate_scores,     \* person_local_id -> CandidateScore row (primary key)
    sess,                 \* session -> the scoring request it serves
    last_call             \* person -> the inputs of the last completed direct
                          \* compute_score call (history, for comparing calls)

vars == <<scoring_engine, extended_persons, extended_job_cache, chat_turns,
          candidate_signals, candidate_scores, sess, last_call>>

\* turns of one person ordered by turn_index (rows of equal index keep
\* their insertion order)
RECURSIVE SortByIndex(_)
SortByIndex(rows) ==
    IF rows = <<>> THEN <<>>
    ELSE LET rest == SortByIndex(Tail(rows))
             before == SelectSeq(rest, LAMBDA r : r.turn_index < rows[1].turn_index)
             after == SelectSeq(rest, LAMBDA r : r.turn_index >= rows[1].turn_index)
         IN  before \o <<rows[1]>> \o after

SelectTurnsOfAll(p) == SortByIndex(chat_turns)

SelectTurns(p) ==
    SortByIndex(SelectSeq(chat_turns, LAMBDA r : r.person_local_id = p))

IdleSession ==
    [pc |-> "idle", p |-> 0, job_profile |-> EmptyProfile, signals |-> Null,
     loaded_signals |-> FALSE, seen_score |-> "unloaded", extracted |-> FALSE,
     direct |-> FALSE, turns |-> <<>>,
     fit_score |-> Zero, fit_bucket |-> "", prev |-> Null]

\* a request that has raised
Ended(pc, p) == [IdleSession EXCEPT !.pc = pc, !.p = p]

(***************************************************************************)
(* JobProfileAnalyzer.get_comprehensive_job_profile: the cache lookup, the *)
(* upstream fetch that fills the cache, and the profile.  api_jobs_ok and  *)
(* api_skills_ok say whether the two upstream calls answer.                *)
(***************************************************************************)
\* _fetch_and_cache_job adds a row: the job is not cached, the API answers
\* and knows the job
JobFetched(job_id, api_jobs_ok) ==
    /\ job_id \notin DOMAIN extended_job_cache
    /\ api_jobs_ok
    /\ job_id \in DOMAIN UpstreamJobs

JobCacheAfter(job_id, api_jobs_ok) ==
    IF JobFetched(job_id, api_jobs_ok)
    THEN extended_job_cache @@
         (job_id :> [title |-> UpstreamJobs[job_id].title,
                     description |-> UpstreamJobs[job_id].description])
    ELSE extended_job_cache

\* _fetch_job_skills: the upstream skills, [] when the call fails
FetchJobSkills(job_id, api_skills_ok) ==
    IF api_skills_ok /\ job_id \in DOMAIN UpstreamJobs
    THEN UpstreamJobs[job_id].skills ELSE <<>>

get_comprehensive_job_profile(job_id, api_jobs_ok, api_skills_ok) ==
    LET cache == JobCacheAfter(job_id, api_jobs_ok)
    IN  IF job_id \notin DOMAIN cache THEN EmptyProfile
        ELSE BuildJobProfile(cache[job_id], FetchJobSkills(job_id, api_skills_ok))

(***************************************************************************)
(* ScoringEngine.compute_score, one database session per call.             *)
(*   called     -> lines 27-33: job profile, person.signals                *)
(*   extracting -> _extract_signals and its commit (lines 78-136)          *)
(*   scoring    -> lines 35-63: the score, person.score                    *)
(*   saving     -> lines 64-76: the CandidateScore row and its commit      *)
(* A relationship attribute (person.signals, person.score) is read from    *)
(* the database on first access and kept until the session commits.        *)
(***************************************************************************)
Free(s) == sess[s].pc \in {"idle", "error"}

\* scoring_engine.compute_score(person, db) called with nothing loaded
EngineCall(s, p) ==
    /\ Free(s)
    /\ p \in DOMAIN extended_persons
    /\ sess' = [sess EXCEPT ![s] =
                    [IdleSession EXCEPT !.pc = "called", !.p = p, !.direct = TRUE]]
    /\ UNCHANGED <<scoring_engine, extended_persons, extended_job_cache, chat_turns,
                   candidate_signals, candidate_scores, last_call>>

\* routers/sajilo_candidate_enhanced.py, get_candidate_scoring_analysis:
\* `if not person.score or not person.signals: compute_score(person, db)`
RouterScoringAnalysis(s, p) ==
    /\ Free(s)
    /\ p \in DOMAIN extended_persons
    /\ LET has_score == p \in DOMAIN candidate_scores
           has_signals == p \in DOMAIN candidate_signals
       IN  sess' = [sess EXCEPT ![s] =
             IF ~has_score
             THEN [IdleSession EXCEPT !.pc = "called", !.p = p, !.seen_score = "none"]
             ELSE IF ~has_signals
             THEN [IdleSession EXCEPT !.pc = "called", !.p = p, !.seen_score = "row",
                                      !.loaded_signals = TRUE]
             ELSE IdleSession]
    /\ UNCHANGED <<scoring_engine, extended_persons, extended_job_cache, chat_turns,
                   candidate_signals, candidate_scores, last_call>>

LoadSignalsNever(p) == Null

\* person.signals as line 31 sees it
LoadSignals(p) ==
    IF p \in DOMAIN candidate_signals THEN Some(candidate_signals[p]) ELSE Null

CS_Begin(s) ==
    /\ sess[s].pc = "called"
    /\ \E api_jobs_ok \in BOOLEAN, api_skills_ok \in BOOLEAN :
        LET p == sess[s].p
            job_id == extended_persons[p].job_id
            committed == JobFetched(job_id, api_jobs_ok)
            signals == IF sess[s].loaded_signals /\ ~committed
                       THEN sess[s].signals ELSE LoadSignals(p)
        IN  /\ extended_job_cache' = JobCacheAfter(job_id, api_jobs_ok)
            /\ sess' = [sess EXCEPT ![s] =
                  [@ EXCEPT !.pc = IF signals.null THEN "extracting" ELSE "scoring",
                            !.job_profile =
                                get_comprehensive_job_profile(job_id, api_jobs_ok,
                                                              api_skills_ok),
                            !.signals = signals,
                            !.loaded_signals = TRUE,
                            !.seen_score = IF committed THEN "unloaded" ELSE @,
                            !.turns = IF sess[s].direct THEN SelectTurns(p) ELSE <<>>,
                            !.prev = last_call[p]]]
    /\ UNCHANGED <<scoring_engine, extended_persons, chat_turns, candidate_signals,
                   candidate_scores, last_call>>

\* _extract_signals: person.signals was None at line 31 and is still None at
\* line 111, so the row is inserted; the unique person_local_id refuses a
\* second row (IntegrityError at the commit of line 135)
CS_ExtractSignals(s) ==
    /\ sess[s].pc = "extracting"
    /\ LET p == sess[s].p
           person == extended_persons[p]
           row == ExtractedSignals(person, SelectTurns(p))
       IN  IF ExtractFlagsRaises(person) \/ p \in DOMAIN candidate_signals
           THEN /\ sess' = [sess EXCEPT ![s] = Ended("error", p)]
                /\ UNCHANGED candidate_signals
           ELSE /\ candidate_signals' = candidate_signals @@ (p :> row)
                /\ sess' = [sess EXCEPT ![s] =
                      [@ EXCEPT !.pc = "scoring", !.signals = Some(row),
                                !.extracted = TRUE, !.seen_score = "unloaded"]]
    /\ UNCHANGED <<scoring_engine, extended_persons, extended_job_cache, chat_turns,
                   candidate_scores, last_call>>

\* the signals lines 36-57 read: the row loaded at line 31, or, after the
\* commit of _extract_signals expired it, the row as the database holds it
SignalsRead(s) ==
    IF sess[s].extracted THEN candidate_signals[sess[s].p] ELSE sess[s].signals.v

CS_Score(s) ==
    /\ sess[s].pc = "scoring"
    /\ LET p == sess[s].p
           signals == SignalsRead(s)
           role_fit == _compute_role_fit(extended_persons[p], signals,
                                         sess[s].job_profile)
           adjusted_score == AdjustedScore(role_fit, signals)
       IN  sess' = [sess EXCEPT ![s] =
              [@ EXCEPT !.pc = "saving",
                        !.signals = Some(signals),
                        !.fit_score = adjusted_score,
                        !.fit_bucket = _determine_fit_bucket(adjusted_score),
                        !.seen_score =
                            IF @ = "unloaded"
                            THEN IF p \in DOMAIN candidate_scores THEN "row" ELSE "none"
                            ELSE @]]
    /\ UNCHANGED <<scoring_engine, extended_persons, extended_job_cache, chat_turns,
                   candidate_signals, candidate_scores, last_call>>

\* lines 62-73: the CandidateScore row written for the person
ScoreRow(p, fit_score, fit_bucket) ==
    [person_local_id |-> p, fit_score |-> fit_score, fit_bucket |-> fit_bucket]

\* lines 62-76: insert when person.score was None (the primary key refuses
\* a second row), update otherwise, then commit
CS_SaveScore(s) ==
    /\ sess[s].pc = "saving"
    /\ LET p == sess[s].p
           row == ScoreRow(p, sess[s].fit_score, sess[s].fit_bucket)
       IN  IF sess[s].seen_score = "none" /\ p \in DOMAIN candidate_scores
           THEN /\ sess' = [sess EXCEPT ![s] = Ended("error", p)]
                /\ UNCHANGED <<candidate_scores, last_call>>
           ELSE /\ candidate_scores' =
                      IF p \in DOMAIN candidate_scores
                      THEN [candidate_scores EXCEPT ![p] = row]
                      ELSE candidate_scores @@ (p :> row)
                /\ sess' = [sess EXCEPT ![s] = IdleSession]
                /\ last_call' =
                      IF sess[s].direct
                      THEN [last_call EXCEPT ![p] =
                              Some([turns |-> SelectTurns(p),
                                    job_profile |-> sess[s].job_profile,
                                    signals |-> candidate_signals[p],
                                    score |-> row])]
                      ELSE last_call
    /\ UNCHANGED <<scoring_engine, extended_persons, extended_job_cache, chat_turns,
                   candidate_signals>>

(***************************************************************************)
(* The chat writers of the transcript                                      *)
(***************************************************************************)
\* settings.CHAT_INTENTS
CHAT_INTENTS == <<"skill_probe", "motivation", "trap", "values", "scenario">>

\* GPTChatEngine._determine_next_intent
_determine_next_intent(chat_history) ==
    LET current_index ==
            Len(SelectSeq(chat_history, LAMBDA t : t.role = "ai"))
    IN  IF current_index < Len(CHAT_INTENTS) THEN CHAT_INTENTS[current_index + 1]
        ELSE "other"

ChatTurn(p, turn_index, role, intent, content) ==
    [person_local_id |-> p, turn_index |-> turn_index, role |-> role,
     intent |-> intent, content |-> content]

\* the candidate's messages
UserMessages == {MsgDeep}

\* routers/sajilo_adaptive_interview.py, start_adaptive_interview: when the
\* person has no turn yet, the interview plan is generated (which looks the
\* job profile up) and the greeting stored as turn 0
StartInterview(p) ==
    /\ p \in DOMAIN extended_persons
    /\ SelectTurns(p) = <<>>
    /\ MaxTurns >= 1
    /\ \E api_jobs_ok \in BOOLEAN :
          extended_job_cache' = JobCacheAfter(extended_persons[p].job_id, api_jobs_ok)
    /\ chat_turns' = Append(chat_turns, ChatTurn(p, 0, "ai", "other", AiText))
    /\ UNCHANGED <<scoring_engine, extended_persons, candidate_signals,
                   candidate_scores, sess, last_call>>

UserTurnIntentOfQuestion(chat_history) ==
    IF chat_history = <<>> THEN "other" ELSE chat_history[Len(chat_history)].intent

\* the intent the candidate's message is stored with (chat_engine.py line 116)
UserTurnIntent(chat_history) == "other"

\* GPTChatEngine.generate_response: the history is read, the job profile
\* looked up, GPT called; when GPT answers, the user turn and the AI turn are
\* stored.  max_turns bounds the transcript.
GenerateResponse(p, user_message, max_turns) ==
    /\ p \in DOMAIN extended_persons
    /\ Len(SelectTurns(p)) + 2 <= max_turns
    /\ \E api_jobs_ok \in BOOLEAN, gpt_ok \in BOOLEAN :
        LET chat_history == SelectTurns(p)
            current_turn == Len(chat_history)
            next_intent == _determine_next_intent(chat_history)
        IN  /\ extended_job_cache' =
                  JobCacheAfter(extended_persons[p].job_id, api_jobs_ok)
            /\ chat_turns' =
                  IF gpt_ok
                  THEN chat_turns \o
                       <<ChatTurn(p, current_turn, "user",
                                  UserTurnIntent(chat_history), user_message),
                         ChatTurn(p, current_turn + 1, "ai", next_intent, AiText)>>
                  ELSE chat_turns
    /\ UNCHANGED <<scoring_engine, extended_persons, candidate_signals,
                   candidate_scores, sess, last_call>>

\* routers/sajilo_chat.py chat_with_ai, which calls generate_response
ChatWithAI(p, user_message) == GenerateResponse(p, user_message, MaxTurns)

(***************************************************************************)
(* services/ai_scoring_engine.py: the AI scorer, which writes the same     *)
(* CandidateScore and CandidateSignals rows                                *)
(***************************************************************************)
\* max(0.0, min(1.0, x))
Clamp01(x) == QMax(Zero, QMin(One, x))

\* lines 252-262: the bucket the AI named when it is a valid one, else the
\* bucket of the score
ParsedBucket(fit_bucket, score) ==
    IF fit_bucket \in {"top", "borderline", "low"} THEN fit_bucket
    ELSE IF QLe(Q(75, 100), score) THEN "top"
    ELSE IF QLe(Q(50, 100), score) THEN "borderline"
    ELSE "low"

\* _parse_ai_scoring_response on a response that has the required fields
_parse_ai_scoring_response(resp) ==
    LET score == Clamp01(resp.overall_fit_score)
    IN  [resp EXCEPT
            !.overall_fit_score = score,
            !.confidence_level = Clamp01(resp.confidence_level),
            !.dimension_scores =
                [d \in DOMAIN resp.dimension_scores |-> Clamp01(resp.dimension_scores[d])],
            !.fit_bucket = ParsedBucket(resp.fit_bucket, score)]

\* dimension_scores.get(key, default)
DimGet(dimension_scores, key, default) ==
    IF key \in DOMAIN dimension_scores THEN dimension_scores[key] ELSE default

\* _update_signals_from_ai_analysis: the CandidateSignals row it leaves
AISignals(p, scoring_result) ==
    LET dimension_scores == scoring_result.dimension_scores
    IN  [person_local_id |-> p,
         consistency_score |-> DimGet(dimension_scores, "professional_credibility", Q(7, 10)),
         depth_score |-> DimGet(dimension_scores, "technical_competency", Q(7, 10)),
         motivation_alignment |-> DimGet(dimension_scores, "motivation_engagement", Q(7, 10)),
         culture_alignment |-> DimGet(dimension_scores, "cultural_alignment", Q(7, 10)),
         turnover_risk |-> QSub(One, DimGet(dimension_scores, "risk_assessment", Q(3, 10))),
         data_confidence |-> scoring_result.confidence_level,
         credibility_flag |-> Len(scoring_result.red_flags) > 0,
         flags |->
            (IF scoring_result.hiring_recommendation = "strong_hire"
             THEN <<"ai-strong-recommendation">> ELSE <<>>)
            \o (IF "technical" \in scoring_result.key_strengths
                THEN <<"strong-technical-skills">> ELSE <<>>)
            \o (IF "leadership" \in scoring_result.key_strengths
                THEN <<"leadership-potential">> ELSE <<>>)
            \o (IF "communication" \in scoring_result.key_strengths
                THEN <<"strong-communication">> ELSE <<>>)]

\* _fallback_basic_score: the score and the bucket
FallbackScore(person) ==
    LET skills_count == IF person.skills_tags.null THEN 0 ELSE Len(person.skills_tags.v)
        base_score ==
            QSum(<<QMin(Q(skills_count, 5), Q(8, 10)),
                   IF Truthy(person.resume_text) /\ CharLen(person.resume_text.v) > 100
                   THEN Q(1, 10) ELSE Zero,
                   IF TruthyStr(person.linkedin) THEN Q(5, 100) ELSE Zero,
                   IF TruthyStr(person.github) THEN Q(5, 100) ELSE Zero>>)
    IN  QMin(base_score, One)

FallbackBucket(final_score) ==
    IF QLe(Q(75, 100), final_score) THEN "top"
    ELSE IF QLe(Q(50, 100), final_score) THEN "borderline"
    ELSE "low"

\* answers of the model the AI scorer may receive
AIResponses ==
    {[overall_fit_score |-> Q(1, 5), fit_bucket |-> "top",
      confidence_level |-> Q(1, 2),
      dimension_scores |-> [d \in {"technical_competency"} |-> Q(1, 5)],
      red_flags |-> <<"fabricated experience">>, hiring_recommendation |-> "no_hire",
      key_strengths |-> {}],
     [overall_fit_score |-> Q(6, 5), fit_bucket |-> "excellent",
      confidence_level |-> Q(-1, 5),
      dimension_scores |->
         [d \in {"technical_competency", "motivation_engagement", "risk_assessment"} |->
             IF d = "technical_competency" THEN Q(3, 2)
             ELSE IF d = "risk_assessment" THEN Q(-1, 2) ELSE Zero],
      red_flags |-> <<>>, hiring_recommendation |-> "hire",
      key_strengths |-> {"leadership", "communication"}]}

Upsert(table, p, row) ==
    IF p \in DOMAIN table THEN [table EXCEPT ![p] = row] ELSE table @@ (p :> row)

\* compute_ai_score when the model answers with a well-formed response:
\* _save_score_to_database, then _update_signals_from_ai_analysis
AIScore(p, resp) ==
    /\ p \in DOMAIN extended_persons
    /\ \E api_jobs_ok \in BOOLEAN :
        extended_job_cache' = JobCacheAfter(extended_persons[p].job_id, api_jobs_ok)
    /\ LET scoring_result == _parse_ai_scoring_response(resp)
       IN  /\ candidate_scores' =
                 Upsert(candidate_scores, p,
                        ScoreRow(p, scoring_result.overall_fit_score,
                                 scoring_result.fit_bucket))
           /\ candidate_signals' = Upsert(candidate_signals, p, AISignals(p, scoring_result))
    /\ last_call' = [last_call EXCEPT ![p] = Null]
    /\ UNCHANGED <<scoring_engine, extended_persons, chat_turns, sess>>

\* compute_ai_score when the call or the parse raises: _fallback_basic_score
AIFallback(p) ==
    /\ p \in DOMAIN extended_persons
    /\ \E api_jobs_ok \in BOOLEAN :
        extended_job_cache' = JobCacheAfter(extended_persons[p].job_id, api_jobs_ok)
    /\ LET final_score == FallbackScore(extended_persons[p])
       IN  candidate_scores' =
              Upsert(candidate_scores, p,
                     ScoreRow(p, final_score, FallbackBucket(final_score)))
    /\ last_call' = [last_call EXCEPT ![p] = Null]
    /\ UNCHANGED <<scoring_engine, extended_persons, chat_turns, candidate_signals, sess>>

(***************************************************************************)
(* Spec: the service from an empty database holding one candidate          *)
(***************************************************************************)
Persons == {1}

NoRows == [k \in {} |-> Null]

Init ==
    /\ scoring_engine = ScoringEngine(DefaultSettings)
    /\ extended_persons \in {[p \in Persons |-> prof] : prof \in ServiceProfiles(1)}
    /\ extended_job_cache = NoRows
    /\ chat_turns = <<>>
    /\ candidate_signals = NoRows
    /\ candidate_scores = NoRows
    /\ sess = [s \in Sessions |-> IdleSession]
    /\ last_call = [p \in Persons |-> Null]

Next ==
    \/ \E s \in Sessions, p \in Persons : RouterScoringAnalysis(s, p)
    \/ \E s \in Sessions : CS_Begin(s)
    \/ \E s \in Sessions : CS_ExtractSignals(s)
    \/ \E s \in Sessions : CS_Score(s)
    \/ \E s \in Sessions : CS_SaveScore(s)
    \/ \E p \in Persons : StartInterview(p)
    \/ \E p \in Persons, m \in UserMessages : ChatWithAI(p, m)
    \/ \E p \in Persons, resp \in AIResponses : AIScore(p, resp)
    \/ \E p \in Persons : AIFallback(p)

Spec == Init /\ [][Next]_vars


(***************************************************************************)
(* EngineSpec: ScoringEngine.compute_score called directly, one call after *)
(* another, on a database that holds one candidate with either a           *)
(* transcript and no signals, or stored signals                            *)
(***************************************************************************)
\* the turns a transcript is drawn from
TurnKinds ==
    {[role |-> "user", intent |-> "other", content |-> MsgShort],
     [role |-> "user", intent |-> "motivation", content |-> MsgLong],
     [role |-> "user", intent |-> "trap", content |-> MsgMid],
     [role |-> "ai", intent |-> "values", content |-> AiText]}

Transcripts(p) ==
    UNION {{[i \in 1..n |-> ChatTurn(p, i - 1, ks[i].role, ks[i].intent, ks[i].content)] :
              ks \in [1..n -> TurnKinds]} : n \in 0..MaxTurns}

SignalsRow(p, depth, motivation, culture, turnover, confidence, flag) ==
    [person_local_id |-> p, consistency_score |-> Q(1, 2), depth_score |-> depth,
     motivation_alignment |-> motivation, culture_alignment |-> culture,
     turnover_risk |-> turnover, data_confidence |-> confidence,
     credibility_flag |-> flag, flags |-> <<>>]

\* CandidateSignals rows found stored
StoredSignals(p) ==
    {SignalsRow(p, g[1], g[2], g[3], g[4], g[5], flag) :
        g \in {<<Q(4, 5), Q(4, 5), Q(4, 5), Q(1, 5), Q(4, 5)>>,
               <<Zero, Zero, Zero, One, Zero>>,
               <<One, Q(1, 3), Q(1, 2), One, One>>,
               <<Zero, One, Q(1, 2), Q(3, 5), One>>,
               <<One, One, One, Zero, One>>},
        flag \in BOOLEAN}

EngineInit ==
    /\ scoring_engine = ScoringEngine(DefaultSettings)
    /\ extended_persons \in {[p \in Persons |-> prof] : prof \in Profiles(1)}
    /\ extended_job_cache = NoRows
    /\ \/ /\ chat_turns \in Transcripts(1)
          /\ candidate_signals = NoRows
       \/ /\ chat_turns = <<>>
          /\ candidate_signals \in {(1 :> row) : row \in StoredSignals(1)}
    /\ candidate_scores = NoRows
    /\ sess = [s \in Sessions |-> IdleSession]
    /\ last_call = [p \in Persons |-> Null]

EngineNext ==
    \/ \E p \in Persons : EngineCall(1, p)
    \/ \E s \in Sessions : CS_Begin(s)
    \/ \E s \in Sessions : CS_ExtractSignals(s)
    \/ \E s \in Sessions : CS_Score(s)
    \/ \E s \in Sessions : CS_SaveScore(s)
    \/ \E p \in Persons, m \in UserMessages : ChatWithAI(p, m)

EngineSpec == EngineInit /\ [][EngineNext]_vars



(***************************************************************************)
(* Properties                                                              *)
(***************************************************************************)
\* the calls that have computed their score (line 60) and not yet stored it
Scored == {s \in Sessions : sess[s].pc = "saving"}

\* the signals and the role fit a call computed its score from
UsedSignals(s) == sess[s].signals.v

RoleFitOf(s) ==
    _compute_role_fit(extended_persons[sess[s].p], UsedSignals(s), sess[s].job_profile)

SubScores(row) ==
    {row.consistency_score, row.depth_score, row.motivation_alignment,
     row.culture_alignment, row.turnover_risk, row.data_confidence}

\* C1: every sub-score of a CandidateSignals row and every fit_score that
\* compute_score computes or stores lies in [0,1]
C1_ScoresInUnitInterval ==
    /\ \A p \in DOMAIN candidate_signals :
          \A x \in SubScores(candidate_signals[p]) : InUnit(x)
    /\ \A p \in DOMAIN candidate_scores : InUnit(candidate_scores[p].fit_score)
    /\ \A s \in Scored : InUnit(sess[s].fit_score)

\* a score stored from signals extracted from a three-turn transcript whose
\* consistency and depth are not the defaults
C1_Witness ==
    /\ 1 \in DOMAIN candidate_scores
    /\ 1 \in DOMAIN candidate_signals
    /\ Len(chat_turns) = 3
    /\ candidate_signals[1] = ExtractedSignals(extended_persons[1], SelectTurns(1))
    /\ candidate_signals[1].consistency_score # Q(1, 2)
    /\ QLt(Zero, candidate_signals[1].depth_score)
    /\ QLt(Zero, candidate_scores[1].fit_score)

\* C2: without a credibility flag the fit_score is the weighted sum of role
\* fit, depth, motivation, 1 - turnover risk and confidence, times
\* 0.5 + 0.5 * confidence; with every component 0.8 the raw score is 0.8,
\* the multiplier 0.9, the fit_score 0.72 and the bucket "borderline"
C2_ScoreFormula ==
    \A s \in Scored :
        LET sg == UsedSignals(s)
            rf == RoleFitOf(s)
            raw == QAdd(QAdd(QAdd(QMul(rf, Q(35, 100)), QMul(sg.depth_score, Q(20, 100))),
                             QAdd(QMul(sg.motivation_alignment, Q(15, 100)),
                                  QMul(QSub(One, sg.turnover_risk), Q(15, 100)))),
                        QMul(sg.data_confidence, Q(15, 100)))
            mult == QAdd(Q(1, 2), QMul(Q(1, 2), sg.data_confidence))
        IN  ~sg.credibility_flag =>
              /\ sess[s].fit_score = QMul(raw, mult)
              /\ (/\ rf = Q(4, 5) /\ sg.depth_score = Q(4, 5)
                  /\ sg.motivation_alignment = Q(4, 5) /\ sg.turnover_risk = Q(1, 5)
                  /\ sg.data_confidence = Q(4, 5))
                 => /\ raw = Q(4, 5)
                    /\ mult = Q(9, 10)
                    /\ sess[s].fit_score = Q(72, 100)
                    /\ sess[s].fit_bucket = "borderline"

\* the call scoring the all-0.8 inputs without a flag
C2_Witness ==
    \E s \in Scored :
        /\ ~UsedSignals(s).credibility_flag
        /\ RoleFitOf(s) = Q(4, 5)
        /\ UsedSignals(s).depth_score = Q(4, 5)
        /\ UsedSignals(s).motivation_alignment = Q(4, 5)
        /\ UsedSignals(s).turnover_risk = Q(1, 5)
        /\ UsedSignals(s).data_confidence = Q(4, 5)
        /\ sess[s].fit_score = Q(18, 25)

\* the score compute_score gives the inputs of call s with the flag set to f
ScoreWithFlag(s, f) ==
    AdjustedScore(RoleFitOf(s), [UsedSignals(s) EXCEPT !.credibility_flag = f])

\* C3: the score of flagged inputs is at most 0.25 times the score of the
\* same inputs unflagged; the all-0.8 inputs flagged score 0.18, bucket "low"
C3_FraudMonotonicity ==
    \A s \in Scored :
        /\ sess[s].fit_score = ScoreWithFlag(s, UsedSignals(s).credibility_flag)
        /\ QLe(ScoreWithFlag(s, TRUE), QMul(ScoreWithFlag(s, FALSE), Q(25, 100)))
        /\ (/\ UsedSignals(s).credibility_flag
            /\ RoleFitOf(s) = Q(4, 5) /\ UsedSignals(s).depth_score = Q(4, 5)
            /\ UsedSignals(s).motivation_alignment = Q(4, 5)
            /\ UsedSignals(s).turnover_risk = Q(1, 5)
            /\ UsedSignals(s).data_confidence = Q(4, 5))
           => /\ sess[s].fit_score = Q(18, 100)
              /\ sess[s].fit_bucket = "low"

\* the call scoring the all-0.8 inputs with the flag set
C3_Witness ==
    \E s \in Scored :
        /\ UsedSignals(s).credibility_flag
        /\ RoleFitOf(s) = Q(4, 5)
        /\ UsedSignals(s).depth_score = Q(4, 5)
        /\ UsedSignals(s).motivation_alignment = Q(4, 5)
        /\ UsedSignals(s).turnover_risk = Q(1, 5)
        /\ UsedSignals(s).data_confidence = Q(4, 5)
        /\ sess[s].fit_score = Q(9, 50)
        /\ QLt(sess[s].fit_score, ScoreWithFlag(s, FALSE))

C5_BucketThresholds ==
    /\ \A s \in Scored :
         sess[s].fit_bucket =
            IF QLe(Q(75, 100), sess[s].fit_score) THEN "top"
            ELSE IF QLe(Q(50, 100), sess[s].fit_score) THEN "borderline"
            ELSE "low"
    /\ \A p \in DOMAIN candidate_scores :
         /\ candidate_scores[p].fit_bucket = "top"
               <=> QLe(Q(3, 4), candidate_scores[p].fit_score)
         /\ candidate_scores[p].fit_bucket = "low"
               <=> QLt(candidate_scores[p].fit_score, Q(1, 2))

\* a stored score exactly on the top threshold
C5_Witness ==
    \E p \in DOMAIN candidate_scores :
        /\ candidate_scores[p].fit_score = Q(3, 4)
        /\ candidate_scores[p].fit_bucket = "top"

BucketRank(b) == CASE b = "low" -> 0 [] b = "borderline" -> 1 [] b = "top" -> 2

\* scores a computed score is compared with
ProbeScores == {Zero, Q(1, 4), Q(49, 100), Q(1, 2), Q(3, 5), Q(3, 4), Q(9, 10), One}

\* C6: of two scores, the higher never gets the lower bucket
C6_BucketMonotone ==
    \A s \in Scored : \A q \in ProbeScores :
        /\ QLe(sess[s].fit_score, q)
              => BucketRank(sess[s].fit_bucket) <= BucketRank(_determine_fit_bucket(q))
        /\ QLe(q, sess[s].fit_score)
              => BucketRank(_determine_fit_bucket(q)) <= BucketRank(sess[s].fit_bucket)

\* a computed score exactly on the borderline threshold, between probes of
\* the lower and of the higher bucket
C6_Witness ==
    \E s \in Scored :
        /\ sess[s].fit_score = Q(1, 2)
        /\ sess[s].fit_bucket = "borderline"
        /\ _determine_fit_bucket(Q(49, 100)) = "low"
        /\ _determine_fit_bucket(Q(3, 4)) = "top"

\* the bucket of a score under the configured thresholds 0.75 and 0.50
ConfiguredBucket(score) ==
    IF QLe(Q(75, 100), score) THEN "top"
    ELSE IF QLe(Q(50, 100), score) THEN "borderline"
    ELSE "low"

\* C7: every stored CandidateScore has the bucket of its own fit_score
\* under the thresholds 0.75 and 0.50, whichever scorer wrote it
C7_StoredBucketMatchesScore ==
    \A p \in DOMAIN candidate_scores :
        candidate_scores[p].fit_bucket = ConfiguredBucket(candidate_scores[p].fit_score)

\* a direct call that follows a completed one for the same person, with the
\* transcript and the job profile the completed call had
RepeatedCall(s) ==
    /\ sess[s].pc \in {"extracting", "scoring", "saving"}
    /\ sess[s].direct
    /\ ~sess[s].prev.null
    /\ sess[s].prev.v.turns = sess[s].turns
    /\ sess[s].prev.v.job_profile = sess[s].job_profile
    /\ SelectTurns(sess[s].p) = sess[s].turns

\* C8: a second compute_score call with unchanged transcript, profile and
\* job profile does not raise, and when it returns the stored
\* CandidateSignals and the stored fit_score and fit_bucket are those the
\* first call left
C8_Idempotent ==
    [][\A s \in Sessions :
          RepeatedCall(s) =>
             /\ sess'[s].pc # "error"
             /\ (sess[s].pc = "saving" /\ sess'[s].pc = "idle")
                   => /\ sess[s].p \in DOMAIN candidate_scores'
                      /\ candidate_scores'[sess[s].p] = sess[s].prev.v.score
                      /\ candidate_signals'[sess[s].p] = sess[s].prev.v.signals]_vars

\* the second call about to store its score over the first call's row
C8_Witness ==
    \E s \in Sessions :
        /\ RepeatedCall(s)
        /\ sess[s].pc = "saving"
        /\ sess[s].p \in DOMAIN candidate_scores
        /\ candidate_scores[sess[s].p] = sess[s].prev.v.score
        /\ sess[s].fit_score = sess[s].prev.v.score.fit_score
        /\ Len(sess[s].turns) > 0

\* C9: the signals a compute_score call scores with are the ones
\* _extract_signals derives from the person's transcript as it is during
\* the call (when the call started, or now)
C9_SignalsRecomputed ==
    \A s \in Scored :
        LET person == extended_persons[sess[s].p]
        IN  (sess[s].direct /\ ~ExtractFlagsRaises(person)) =>
               UsedSignals(s) \in {ExtractedSignals(person, sess[s].turns),
                                   ExtractedSignals(person, SelectTurns(sess[s].p))}

\* C10: of two calls for a person without signals or score that overlap,
\* neither raises: never has one raised while the other, which inserted the
\* signals itself, is still to store the first score
C10_ConcurrentCallsComplete ==
    ~\E s1 \in Sessions, s2 \in Sessions :
        /\ s1 # s2
        /\ sess[s1].pc = "error"
        /\ sess[s2].pc \in {"scoring", "saving"}
        /\ sess[s2].extracted
        /\ sess[s2].p = sess[s1].p
        /\ candidate_scores = NoRows

(***************************************************************************)
(* BatchSpec: a batch of two candidates, each scored once by               *)
(* ScoringEngine.compute_score, the two calls in any order and interleaved *)
(* step by step                                                            *)
(***************************************************************************)
BatchPersons == {1, 2}

BatchProfiles(id) ==
    {PersonPython(id, 101), PersonFull(id, 103), PersonNoSkills(id, 102)}

BatchTranscripts(p) ==
    {<<>>,
     <<ChatTurn(p, 0, "ai", "other", AiText),
       ChatTurn(p, 1, "user", "other", MsgDeep)>>,
     <<ChatTurn(p, 0, "ai", "trap", AiText),
       ChatTurn(p, 1, "user", "trap", MsgHonest)>>}

BatchInit ==
    /\ scoring_engine = ScoringEngine(DefaultSettings)
    /\ extended_persons \in
          {[p \in BatchPersons |-> IF p = 1 THEN a ELSE b] :
              a \in BatchProfiles(1), b \in BatchProfiles(2)}
    /\ extended_job_cache = NoRows
    /\ chat_turns \in {a \o b : a \in BatchTranscripts(1), b \in BatchTranscripts(2)}
    /\ candidate_signals = NoRows
    /\ candidate_scores = NoRows
    /\ sess = [s \in Sessions |-> IdleSession]
    /\ last_call = [p \in BatchPersons |-> Null]

\* the batch scores a candidate that has no score yet and that no other
\* request is working on
BatchCall(s, p) ==
    /\ p \notin DOMAIN candidate_scores
    /\ \A t \in Sessions : sess[t].p # p
    /\ EngineCall(s, p)

BatchNext ==
    \/ \E s \in Sessions, p \in BatchPersons : BatchCall(s, p)
    \/ \E s \in Sessions : CS_Begin(s)
    \/ \E s \in Sessions : CS_ExtractSignals(s)
    \/ \E s \in Sessions : CS_Score(s)
    \/ \E s \in Sessions : CS_SaveScore(s)

BatchSpec == BatchInit /\ [][BatchNext]_vars

\* the row a table holds for person q, if any
RowOf(table, q) == IF q \in DOMAIN table THEN Some(table[q]) ELSE Null

\* the ChatTurn rows of person q, read off the table
OwnTurns(q) ==
    SortByIndex(SelectSeq(chat_turns, LAMBDA r : r.person_local_id = q))

\* the job profiles a candidate's own job can give, whatever was cached
OwnJobProfiles(job_id) ==
    {EmptyProfile} \cup
    (IF job_id \in DOMAIN UpstreamJobs
     THEN {BuildJobProfile([title |-> UpstreamJobs[job_id].title,
                            description |-> UpstreamJobs[job_id].description],
                           skills) :
              skills \in {UpstreamJobs[job_id].skills, <<>>}}
     ELSE {})

\* the CandidateScore rows person q can get from q's own records alone
OwnScoreRows(q) ==
    {ScoreRow(q, AdjustedScore(_compute_role_fit(extended_persons[q],
                                                 candidate_signals[q], jp),
                               candidate_signals[q]),
              _determine_fit_bucket(
                  AdjustedScore(_compute_role_fit(extended_persons[q],
                                                  candidate_signals[q], jp),
                                candidate_signals[q]))) :
        jp \in OwnJobProfiles(extended_persons[q].job_id)}

C11_OwnRecordsOnly ==
    \A q \in BatchPersons :
        /\ q \in DOMAIN candidate_signals =>
              candidate_signals[q] = ExtractedSignals(extended_persons[q], OwnTurns(q))
        /\ q \in DOMAIN candidate_scores =>
              candidate_scores[q] \in OwnScoreRows(q)

C11_Frame ==
    /\ chat_turns' = chat_turns
    /\ \A q \in BatchPersons :
          (\/ RowOf(candidate_signals, q)' # RowOf(candidate_signals, q)
           \/ RowOf(candidate_scores, q)' # RowOf(candidate_scores, q))
          => \E s \in Sessions :
                /\ sess[s].p = q
                /\ sess[s].pc \in {"extracting", "saving"}
                /\ \A t \in Sessions \ {s} : sess'[t] = sess[t]

HonestTrapReply(turn) ==
    /\ turn.role = "user"
    /\ turn.intent = "trap"
    /\ "unfamiliar" \in WordSet(turn.content)

NothingToAnalyze(p) ==
    /\ SelectTurns(p) = <<>>
    /\ extended_persons[p].why_us.null
    /\ extended_persons[p].intro.null

\* the calls whose _extract_signals has written the CandidateSignals row
Extracted == {s \in Sessions : sess[s].extracted /\ sess[s].pc \in {"scoring", "saving"}}

C13_DefaultsWhenCompleted ==
    \A s \in Extracted :
        NothingToAnalyze(sess[s].p) =>
            /\ candidate_signals[sess[s].p].consistency_score = Q(1, 2)
            /\ candidate_signals[sess[s].p].depth_score = Q(3, 10)
            /\ candidate_signals[sess[s].p].motivation_alignment = Q(4, 10)

ScoredWithoutProfile == {s \in Scored : sess[s].job_profile = EmptyProfile}

\* C15: when the job requirements cannot be obtained the job profile is
\* empty and compute_score completes with a role fit determined by the
\* number of candidate skills alone: the role fit of a call that got the
\* empty profile is the same whatever signals it is computed with.
C15_SkillCountOnlyFallback ==
    \A s \in ScoredWithoutProfile :
        \A row \in StoredSignals(sess[s].p) :
            _compute_role_fit(extended_persons[sess[s].p], row, EmptyProfile)
                = RoleFitOf(s)

\* the role fit without a job profile does vary with the depth score alone
C15_RoleFitVariesWithDepth ==
    \A s \in ScoredWithoutProfile :
        \A row \in StoredSignals(sess[s].p) :
            row.depth_score = UsedSignals(s).depth_score =>
                _compute_role_fit(extended_persons[sess[s].p], row, EmptyProfile)
                    = RoleFitOf(s)

(***************************************************************************)
(* ConfigSpec: the service started with the Settings the environment       *)
(* gives, then compute_score called on one candidate                       *)
(***************************************************************************)
\* the Settings a deployment may start with: the defaults, weights that sum
\* to 1.2, and thresholds with top below borderline
EnvSettings ==
    {DefaultSettings,
     [DefaultSettings EXCEPT !.SCORING_WEIGHTS.role_fit = Q(55, 100)],
     [DefaultSettings EXCEPT !.SCORING_THRESHOLDS =
                                 [top |-> Q(50, 100), borderline |-> Q(75, 100)]]}

ConfigInit ==
    /\ scoring_engine \in {ScoringEngine(settings) : settings \in EnvSettings}
    /\ extended_persons \in
          {[p \in Persons |-> prof] : prof \in {PersonFull(1, 101), PersonMid(1, 102)}}
    /\ extended_job_cache = NoRows
    /\ chat_turns = <<>>
    /\ candidate_signals \in {NoRows} \cup {(1 :> row) : row \in StoredSignals(1)}
    /\ candidate_scores = NoRows
    /\ sess = [s \in Sessions |-> IdleSession]
    /\ last_call = [p \in Persons |-> Null]

ConfigNext ==
    \/ \E p \in Persons : EngineCall(1, p)
    \/ \E s \in Sessions : CS_Begin(s)
    \/ \E s \in Sessions : CS_ExtractSignals(s)
    \/ \E s \in Sessions : CS_Score(s)
    \/ \E s \in Sessions : CS_SaveScore(s)

ConfigSpec == ConfigInit /\ [][ConfigNext]_vars

\* weights that sum to 1 within a hundredth, and top above borderline
ValidConfiguration(engine) ==
    LET w == engine.weights
        total == QSum(<<w.role_fit, w.capability_depth, w.motivation_alignment,
                        w.reliability_inverse_turnover, w.data_confidence>>)
    IN  /\ QLe(Q(99, 100), total)
        /\ QLe(total, Q(101, 100))
        /\ QLt(engine.thresholds.borderline, engine.thresholds.top)

\* C16: an invalid scoring configuration is rejected when the engine is
\* constructed: no compute_score request is in progress, and no score has
\* been stored, with weights that do not sum to about 1 or with top at or
\* below borderline.
C16_InvalidConfigurationRejected ==
    (\/ \E s \in Sessions : sess[s].pc # "idle"
     \/ candidate_scores # NoRows)
    => ValidConfiguration(scoring_engine)

\* the calls scored against a job profile
ScoredWithProfile == {s \in Scored : sess[s].job_profile # EmptyProfile}

CandidateSkillsOf(s) == SkillSet(extended_persons[sess[s].p])

MandatorySkillsOf(s) == SeqToSet(sess[s].job_profile.mandatory_skills)

\* the role fit of call s when its mandatory-skill match is mandatory_match
RoleFitWithMandatory(s, mandatory_match) ==
    LET person == extended_persons[sess[s].p]
        job_profile == sess[s].job_profile
        role_fit ==
            QSum(<<QMul(mandatory_match, Q(4, 10)),
                   QMul(SkillMatch(CandidateSkillsOf(s), SeqToSet(job_profile.key_skills)),
                        Q(25, 100)),
                   QMul(_compute_experience_level_match(person, job_profile.role_level),
                        Q(20, 100)),
                   QMul(_compute_technical_alignment(person, job_profile), Q(15, 100))>>)
    IN  QMin(QAdd(QMul(role_fit, Q(8, 10)), QMul(UsedSignals(s).depth_score, Q(2, 10))),
             One)

\* C17: when the job defines a mandatory skill, the mandatory-skill match
\* used in role fit is |candidate_skills /\ mandatory_skills| divided by
\* |mandatory_skills|; for candidate skills {python} and mandatory skills
\* {python, aws} it is 0.5.
C17_MandatoryMatchRatio ==
    \A s \in ScoredWithProfile :
        MandatorySkillsOf(s) # {} =>
            /\ RoleFitOf(s) =
                  RoleFitWithMandatory(s,
                      Q(Cardinality(CandidateSkillsOf(s) \cap MandatorySkillsOf(s)),
                        Cardinality(MandatorySkillsOf(s))))
            /\ (CandidateSkillsOf(s) = {"python"}
                    /\ MandatorySkillsOf(s) = {"python", "aws"})
               => RoleFitOf(s) = RoleFitWithMandatory(s, Q(1, 2))

C17_Witness ==
    \E s \in ScoredWithProfile :
        /\ CandidateSkillsOf(s) = {"python"}
        /\ MandatorySkillsOf(s) = {"python", "aws"}
        /\ RoleFitOf(s) = RoleFitWithMandatory(s, Q(1, 2))
        /\ RoleFitOf(s) # RoleFitWithMandatory(s, One)

\* C18: when the job profile defines no mandatory skills the mandatory-skill
\* factor counts as full credit: the role fit is the one obtained with a
\* mandatory-skill match of 1.
C18_NoMandatoryFullCredit ==
    \A s \in ScoredWithProfile :
        MandatorySkillsOf(s) = {} => RoleFitOf(s) = RoleFitWithMandatory(s, One)

\* C19: before the fraud penalty, 0.5 * raw <= adjusted <= raw <= 1: the
\* confidence multiplier 0.5 + 0.5 * confidence stays within [0.5, 1], so
\* low confidence discounts the raw score toward half, never to zero and
\* never above raw.
C19_ConfidenceDiscountBounds ==
    \A s \in Scored :
        LET raw_score == RawScore(RoleFitOf(s), UsedSignals(s))
            adjusted_score == ConfidenceAdjusted(RoleFitOf(s), UsedSignals(s))
            confidence_multiplier == ConfidenceMultiplier(UsedSignals(s))
        IN  /\ QLe(Q(1, 2), confidence_multiplier)
            /\ QLe(confidence_multiplier, One)
            /\ QLe(QMul(Q(1, 2), raw_score), adjusted_score)
            /\ QLe(adjusted_score, raw_score)
            /\ QLe(raw_score, One)

C19_Witness ==
    \E s \in Scored :
        /\ QLt(UsedSignals(s).data_confidence, Q(1, 2))
        /\ QLt(Zero, RawScore(RoleFitOf(s), UsedSignals(s)))
        /\ QLt(ConfidenceAdjusted(RoleFitOf(s), UsedSignals(s)),
               RawScore(RoleFitOf(s), UsedSignals(s)))

(***************************************************************************)
(* ChatSpec: the transcript of one candidate as the chat operations build  *)
(* it: GPTChatEngine.start_conversation and generate_response, and the     *)
(* adaptive interview start and continue endpoints, in any order           *)
(***************************************************************************)
MaxChatTurns == 8

\* what the candidate may write
ChatMessages == {MsgDeep, MsgHonest}

\* GPTChatEngine.start_conversation: the greeting is stored as turn 0
StartConversation(p) ==
    /\ p \in DOMAIN extended_persons
    /\ Len(SelectTurns(p)) + 1 <= MaxChatTurns
    /\ \E api_jobs_ok \in BOOLEAN :
          extended_job_cache' = JobCacheAfter(extended_persons[p].job_id, api_jobs_ok)
    /\ chat_turns' = Append(chat_turns, ChatTurn(p, 0, "ai", "other", AiText))
    /\ UNCHANGED <<scoring_engine, extended_persons, candidate_signals,
                   candidate_scores, sess, last_call>>

\* interview_plan['question_sequence'] of _generate_basic_interview_plan
question_sequence ==
    <<[category |-> "technical_depth", focus |-> "core_skills"],
      [category |-> "technical_depth", focus |-> "core_skills"],
      [category |-> "experience_validation", focus |-> "project_examples"],
      [category |-> "motivation_alignment", focus |-> "company_interest"],
      [category |-> "technical_depth", focus |-> "core_skills"],
      [category |-> "experience_validation", focus |-> "project_examples"],
      [category |-> "motivation_alignment", focus |-> "career_goals"],
      [category |-> "behavioral_assessment", focus |-> "problem_solving"]>>

\* question_sequence[current_turn]; index -1 is the last element
PlannedQuestion(current_turn) ==
    IF current_turn < 0 THEN question_sequence[Len(question_sequence) + 1 + current_turn]
    ELSE question_sequence[current_turn + 1]

\* the intent of the question _generate_specific_question returns
_generate_specific_question(category, focus) ==
    CASE category = "technical_depth" -> "skill_probe"
      [] category = "experience_validation" ->
             IF focus \in {"project_examples", "leadership_examples"} THEN "scenario"
             ELSE IF focus = "scale_validation" THEN "skill_probe"
             ELSE "other"
      [] category = "motivation_alignment" -> "motivation"
      [] category = "behavioral_assessment" -> "scenario"
      [] category = "culture_fit" -> "values"
      [] OTHER -> "other"

\* routers/sajilo_adaptive_interview.py, continue_adaptive_interview: the
\* candidate's message is stored, then either the next planned question or,
\* when the plan is exhausted, the completion message and the AI score.
\* question_ok is false when generate_adaptive_question falls back to its
\* basic question.
ContinueInterview(p, user_message) ==
    /\ p \in DOMAIN extended_persons
    /\ Len(SelectTurns(p)) + 2 <= MaxChatTurns
    /\ \E api_jobs_ok \in BOOLEAN, question_ok \in BOOLEAN :
        LET history == SelectTurns(p)
            user_turn_index == Len(history)
            ai_turns == SelectSeq(history, LAMBDA t : t.role = "ai")
            current_question_number == Len(ai_turns) - 1
            interview_complete == current_question_number >= Len(question_sequence)
            planned_question == PlannedQuestion(current_question_number)
            question_intent ==
                IF question_ok
                THEN _generate_specific_question(planned_question.category,
                                                 planned_question.focus)
                ELSE "skill_probe"
            user_turn == ChatTurn(p, user_turn_index, "user", "other", user_message)
        IN  /\ extended_job_cache' =
                  JobCacheAfter(extended_persons[p].job_id, api_jobs_ok)
            /\ IF interview_complete
               THEN /\ chat_turns' =
                          chat_turns \o
                          <<user_turn,
                            ChatTurn(p, user_turn_index + 1, "ai", "other", AiText)>>
                    /\ \/ \E resp \in AIResponses :
                             LET scoring_result == _parse_ai_scoring_response(resp)
                             IN  /\ candidate_scores' =
                                       Upsert(candidate_scores, p,
                                              ScoreRow(p, scoring_result.overall_fit_score,
                                                       scoring_result.fit_bucket))
                                 /\ candidate_signals' =
                                       Upsert(candidate_signals, p,
                                              AISignals(p, scoring_result))
                       \/ /\ candidate_scores' =
                                Upsert(candidate_scores, p,
                                       ScoreRow(p, FallbackScore(extended_persons[p]),
                                                FallbackBucket(
                                                    FallbackScore(extended_persons[p]))))
                          /\ UNCHANGED candidate_signals
                    /\ last_call' = [last_call EXCEPT ![p] = Null]
               ELSE /\ chat_turns' =
                          chat_turns \o
                          <<user_turn,
                            ChatTurn(p, user_turn_index + 1, "ai", question_intent,
                                     AiText)>>
                    /\ UNCHANGED <<candidate_signals, candidate_scores, last_call>>
    /\ UNCHANGED <<scoring_engine, extended_persons, sess>>

ChatInit ==
    /\ scoring_engine = ScoringEngine(DefaultSettings)
    /\ extended_persons \in {[p \in Persons |-> prof] : prof \in ServiceProfiles(1)}
    /\ extended_job_cache = NoRows
    /\ chat_turns = <<>>
    /\ candidate_signals = NoRows
    /\ candidate_scores = NoRows
    /\ sess = [s \in Sessions |-> IdleSession]
    /\ last_call = [p \in Persons |-> Null]

ChatNext ==
    \/ \E p \in Persons : StartConversation(p)
    \/ \E p \in Persons : StartInterview(p)
    \/ \E p \in Persons, m \in ChatMessages : GenerateResponse(p, m, MaxChatTurns)
    \/ \E p \in Persons, m \in ChatMessages : ContinueInterview(p, m)

ChatSpec == ChatInit /\ [][ChatNext]_vars

MsgTech == Repeat(<<"implement">>, 5) \o <<"because">>

\* six words over the same vocabulary, 49 characters
MsgPlain == <<"implement">> \o Repeat(<<"because">>, 5)

\* twenty words, 215 characters: five passion keywords, two future keywords
MsgKeen ==
    <<"passionate", "excited", "love", "enjoy", "driven", "career", "development",
      "40%">> \o Repeat(<<"architecture">>, 12)

MaxAnalysisTurns == 3

AnalysisTurnKinds ==
    {[role |-> "user", intent |-> "other", content |-> MsgShort],
     [role |-> "user", intent |-> "motivation", content |-> MsgTech],
     [role |-> "user", intent |-> "other", content |-> MsgPlain],
     [role |-> "user", intent |-> "motivation", content |-> MsgKeen],
     [role |-> "ai", intent |-> "motivation", content |-> AiText]}

AnalysisTranscripts(p) ==
    UNION {{[i \in 1..n |-> ChatTurn(p, i - 1, ks[i].role, ks[i].intent, ks[i].content)] :
              ks \in [1..n -> AnalysisTurnKinds]} : n \in 0..MaxAnalysisTurns}

AnalysisProfiles(id) == {PersonBare(id, 101), PersonMid(id, 101), PersonFull(id, 101)}

AnalysisInit ==
    /\ scoring_engine = ScoringEngine(DefaultSettings)
    /\ extended_persons \in {[p \in Persons |-> prof] : prof \in AnalysisProfiles(1)}
    /\ extended_job_cache = NoRows
    /\ chat_turns \in AnalysisTranscripts(1)
    /\ candidate_signals = NoRows
    /\ candidate_scores = NoRows
    /\ sess = [s \in Sessions |-> IdleSession]
    /\ last_call = [p \in Persons |-> Null]

AnalysisNext ==
    \/ \E p \in Persons : EngineCall(1, p)
    \/ CS_Begin(1)
    \/ CS_ExtractSignals(1)
    \/ CS_Score(1)
    \/ CS_SaveScore(1)

AnalysisSpec == AnalysisInit /\ [][AnalysisNext]_vars

\* the CandidateSignals row call s extracted, and the transcript it read
ExtractedRow(s) == candidate_signals[sess[s].p]

CandidateTurns(s) == UserTurns(SelectTurns(sess[s].p))

\* C21: _analyze_consistency returns 0.5 whenever the transcript has fewer
\* than three candidate-authored turns, however many interviewer or system
\* turns it holds.
C21_FewCandidateTurnsNeutral ==
    \A s \in Extracted :
        Len(CandidateTurns(s)) < 3 => ExtractedRow(s).consistency_score = Q(1, 2)

\* the turns whose word count, vocabulary and technical-keyword density the
\* consistency factors compare
WordCount(t) == Len(t.content)

TechDensity(t) == Q(WordHits(t.content, technical_keywords), Max2(Len(t.content), 1))

SameLengthAndVocabulary(turns) ==
    \A i, j \in 1..Len(turns) :
        /\ WordCount(turns[i]) = WordCount(turns[j])
        /\ WordSet(turns[i].content) = WordSet(turns[j].content)

SameTechDensity(turns) ==
    \A i, j \in 1..Len(turns) : TechDensity(turns[i]) = TechDensity(turns[j])

\* C22 as claimed: three or more candidate turns that all have the same
\* word count and the same vocabulary get a consistency score above 0.7.
C22_SameLengthAndVocabularyAbove ==
    \A s \in Extracted :
        (Len(CandidateTurns(s)) >= 3 /\ SameLengthAndVocabulary(CandidateTurns(s))) =>
            QLt(Q(7, 10), ExtractedRow(s).consistency_score)

\* C22: three or more candidate turns that all have the same word count, the
\* same vocabulary and the same share of technical keywords get a
\* consistency score above 0.7.
C22_SameDensityAbove ==
    \A s \in Extracted :
        (/\ Len(CandidateTurns(s)) >= 3
         /\ SameLengthAndVocabulary(CandidateTurns(s))
         /\ SameTechDensity(CandidateTurns(s))) =>
            QLt(Q(7, 10), ExtractedRow(s).consistency_score)

C22_Witness ==
    \E s \in Extracted :
        /\ Len(CandidateTurns(s)) >= 3
        /\ SameLengthAndVocabulary(CandidateTurns(s))
        /\ SameTechDensity(CandidateTurns(s))
        /\ ExtractedRow(s).consistency_score = One

\* the three sources of motivation data and the ones that contribute
MotivationTurns(s) ==
    SelectSeq(CandidateTurns(s), LAMBDA t : t.intent = "motivation")

HasWhyUs(person) == Truthy(person.why_us) /\ CharLen(person.why_us.v) > 20

HasIntro(person) == Truthy(person.intro) /\ CharLen(person.intro.v) > 30

MotivationSources(s) ==
    (IF MotivationTurns(s) # <<>> THEN {"transcript"} ELSE {})
    \cup (IF HasWhyUs(extended_persons[sess[s].p]) THEN {"why_us"} ELSE {})
    \cup (IF HasIntro(extended_persons[sess[s].p]) THEN {"intro"} ELSE {})

\* the plain average of the collected sub-scores
PlainMotivation(s) == QAvg(MotivationFactors(SelectTurns(sess[s].p), extended_persons[sess[s].p]))

LongCandidateTurns(s) ==
    SelectSeq(CandidateTurns(s), LAMBDA t : CharLen(t.content) > 50)

LengthFactor(turns) ==
    QMin(QDiv(QAvg(Map(LAMBDA t : QInt(CharLen(t.content)), turns)), QInt(400)), One)

SophisticationFactor(turns) == QAvg(Map(SophisticationOf, turns))

QuantificationFactor(turns) == QAvg(Map(QuantificationOf, turns))

StructureFactor(turns) == QAvg(Map(StructureOf, turns))

\* C25: _analyze_depth considers only candidate turns longer than 50
\* characters; it returns 0.3 when there is none, and otherwise
\* min(1, 0.2 * length + 0.4 * sophistication + 0.25 * quantification +
\* 0.15 * structure) with every factor at most 1, never the plain average.
C25_DepthWeightedOverLongTurns ==
    \A s \in Extracted :
        LET turns == LongCandidateTurns(s)
        IN  IF turns = <<>>
            THEN ExtractedRow(s).depth_score = Q(3, 10)
            ELSE /\ InUnit(LengthFactor(turns))
                 /\ InUnit(SophisticationFactor(turns))
                 /\ InUnit(QuantificationFactor(turns))
                 /\ InUnit(StructureFactor(turns))
                 /\ ExtractedRow(s).depth_score =
                       QMin(QSum(<<QMul(Q(2, 10), LengthFactor(turns)),
                                   QMul(Q(4, 10), SophisticationFactor(turns)),
                                   QMul(Q(25, 100), QuantificationFactor(turns)),
                                   QMul(Q(15, 100), StructureFactor(turns))>>), One)

C25_Witness ==
    \E s \in Extracted :
        LET turns == LongCandidateTurns(s)
        IN  /\ Len(turns) = 2
            /\ Len(CandidateTurns(s)) = 3
            /\ turns[1].content # turns[2].content
            /\ QLt(Zero, SophisticationFactor(turns))
            /\ QLt(Zero, QuantificationFactor(turns))
            /\ QLt(Zero, StructureFactor(turns))
            /\ ExtractedRow(s).depth_score # Q(3, 10)
            /\ ExtractedRow(s).depth_score #
                  QAvg(<<LengthFactor(turns), SophisticationFactor(turns),
                         QuantificationFactor(turns), StructureFactor(turns)>>)

(***************************************************************************)
(* RoleFitSpec: compute_score for candidates of every experience level     *)
(* applying to jobs of every role level, with and without technical focus  *)
(***************************************************************************)
\* resumes of every level, and three whose indicator counts tie
RoleFitResumes ==
    {Null, Some(<<>>), Some(ResumeShort), Some(<<"mid", "role">>), Some(ResumeSenior),
     Some(<<"manager">>), Some(<<"junior", "senior">>), Some(<<"mid", "manager">>)}

RoleFitSkills ==
    {<<>>, <<"python">>, <<"python", "sql", "react", "kubernetes">>,
     <<"Python", "aws", "docker", "sql", "react", "tensorflow", "kubernetes", "azure">>}

RoleFitProfiles(id) ==
    {[PersonBare(id, job) EXCEPT !.skills_tags = Some(skills), !.resume_text = resume] :
        job \in DOMAIN UpstreamJobs, skills \in RoleFitSkills, resume \in RoleFitResumes}

RoleFitTranscripts(p) ==
    {<<>>,
     <<ChatTurn(p, 0, "ai", "other", AiText), ChatTurn(p, 1, "user", "other", MsgLong)>>}

RoleFitInit ==
    /\ scoring_engine = ScoringEngine(DefaultSettings)
    /\ extended_persons \in {[p \in Persons |-> prof] : prof \in RoleFitProfiles(1)}
    /\ extended_job_cache = NoRows
    /\ chat_turns \in RoleFitTranscripts(1)
    /\ candidate_signals = NoRows
    /\ candidate_scores = NoRows
    /\ sess = [s \in Sessions |-> IdleSession]
    /\ last_call = [p \in Persons |-> Null]

RoleFitNext ==
    \/ \E p \in Persons : EngineCall(1, p)
    \/ CS_Begin(1)
    \/ CS_ExtractSignals(1)
    \/ CS_Score(1)
    \/ CS_SaveScore(1)

RoleFitSpec == RoleFitInit /\ [][RoleFitNext]_vars

\* the job's preferred skills: the ones it lists that are not mandatory
\* (no job lists more than five skills, so key_skills holds them all)
PreferredSkillsOf(s) == SeqToSet(sess[s].job_profile.key_skills) \ MandatorySkillsOf(s)

\* the role fit of call s when its second skill factor is preferred_match
RoleFitWithPreferred(s, preferred_match) ==
    LET person == extended_persons[sess[s].p]
        job_profile == sess[s].job_profile
        role_fit ==
            QSum(<<QMul(SkillMatch(CandidateSkillsOf(s), MandatorySkillsOf(s)), Q(40, 100)),
                   QMul(preferred_match, Q(25, 100)),
                   QMul(_compute_experience_level_match(person, job_profile.role_level),
                        Q(20, 100)),
                   QMul(_compute_technical_alignment(person, job_profile), Q(15, 100))>>)
    IN  QMin(QAdd(QMul(role_fit, Q(8, 10)), QMul(UsedSignals(s).depth_score, Q(2, 10))),
             One)

\* C26: with a job profile, the role fit is min(1, 0.8 * (0.40 * mandatory +
\* 0.25 * preferred + 0.20 * experience + 0.15 * technical) + 0.2 * depth),
\* preferred being the overlap ratio over the job's preferred skills.
C26_PreferredSkillMatch ==
    \A s \in ScoredWithProfile :
        RoleFitOf(s) =
            RoleFitWithPreferred(s, SkillMatch(CandidateSkillsOf(s), PreferredSkillsOf(s)))

\* the experience match of call s and the match the ordered scale
\* junior < mid-level < senior < management gives two levels
ExperienceMatchOf(s) ==
    _compute_experience_level_match(extended_persons[sess[s].p],
                                    sess[s].job_profile.role_level)

LevelHits(s) == CandidateLevelScores(extended_persons[sess[s].p])

LevelDistance(i, j) == IF i >= j THEN i - j ELSE j - i

ScaleMatch(i, j) ==
    IF i = j THEN One ELSE IF LevelDistance(i, j) = 1 THEN Q(7, 10) ELSE Q(4, 10)

\* the position of the job's required level on the scale
RequiredIndexOf(s) ==
    CHOOSE j \in 1..4 : level_hierarchy[j] = sess[s].job_profile.role_level

\* C27: the resume is classified as the level with the most indicator hits,
\* and the match is 1.0 when that level is the required one, 0.7 when the two
\* are adjacent on junior < mid-level < senior < management and 0.4
\* otherwise, for every required level the job profile service produces.
C27_ExperienceLevelMatch ==
    \A s \in ScoredWithProfile :
        /\ \E j \in 1..4 : level_hierarchy[j] = sess[s].job_profile.role_level
        /\ \A i \in 1..4 :
              (\A k \in (1..4) \ {i} : LevelHits(s)[k] < LevelHits(s)[i]) =>
                  ExperienceMatchOf(s) = ScaleMatch(i, RequiredIndexOf(s))

C27_Witness ==
    \E s \in ScoredWithProfile :
        /\ LevelHits(s) = <<0, 1, 0, 0>>
        /\ sess[s].job_profile.role_level = "senior"
        /\ ExperienceMatchOf(s) = Q(7, 10)

\* the greatest indicator count of call s and the lowest level that has it
BestHits(s) == CHOOSE n \in SeqToSet(LevelHits(s)) : \A k \in 1..4 : LevelHits(s)[k] <= n

LowestTiedLevel(s) ==
    CHOOSE i \in 1..4 :
        /\ LevelHits(s)[i] = BestHits(s)
        /\ \A k \in 1..4 : LevelHits(s)[k] = BestHits(s) => i <= k

\* C29: ties in the indicator counts resolve to the lowest tied level in the
\* order junior, mid-level, senior, management; a missing or empty resume is
\* classified junior, so its match is 1.0 for a junior job, 0.7 for a
\* mid-level job and 0.4 for a senior or management job.
C29_TiesResolveToLowestLevel ==
    \A s \in ScoredWithProfile :
        /\ ExperienceMatchOf(s) = ScaleMatch(LowestTiedLevel(s), RequiredIndexOf(s))
        /\ ~Truthy(extended_persons[sess[s].p].resume_text) =>
              ExperienceMatchOf(s) =
                  CASE sess[s].job_profile.role_level = "junior" -> One
                    [] sess[s].job_profile.role_level = "mid-level" -> Q(7, 10)
                    [] sess[s].job_profile.role_level \in {"senior", "management"} ->
                          Q(4, 10)

C29_Witness ==
    \E s \in ScoredWithProfile :
        /\ LevelHits(s) = <<0, 0, 1, 1>>
        /\ sess[s].job_profile.role_level = "management"
        /\ ExperienceMatchOf(s) = Q(7, 10)

\* the technical alignment of call s, the job's focus areas and the
\* candidate's lower-cased skills
TechnicalAlignmentOf(s) ==
    _compute_technical_alignment(extended_persons[sess[s].p], sess[s].job_profile)

FocusAreasOf(s) == sess[s].job_profile.technical_focus

LoweredSkillsOf(s) == {SkillLower(sk) : sk \in CandidateSkillsOf(s)}

FocusOverlap(s, focus_area) ==
    QMin(Q(Cardinality(LoweredSkillsOf(s) \cap focus_skill_mapping(focus_area)), 3), One)

\* C28: the technical alignment is the default 0.5 when the job defines no
\* technical focus areas, and otherwise the average over the focus areas of
\* min(1, overlap / 3) with the candidate's lower-cased skills.
C28_TechnicalAlignmentDefault ==
    \A s \in ScoredWithProfile :
        TechnicalAlignmentOf(s) =
            IF FocusAreasOf(s) = <<>> THEN Q(1, 2)
            ELSE QAvg([i \in 1..Len(FocusAreasOf(s)) |-> FocusOverlap(s, FocusAreasOf(s)[i])])

\* with focus areas the alignment is the claimed average
C28_AverageOverFocusAreas ==
    \A s \in ScoredWithProfile :
        FocusAreasOf(s) # <<>> =>
            TechnicalAlignmentOf(s) =
                QAvg([i \in 1..Len(FocusAreasOf(s)) |-> FocusOverlap(s, FocusAreasOf(s)[i])])

(***************************************************************************)
(* RequestSpec: chat requests of one candidate served concurrently.  Each  *)
(* handler runs in its own database session: it queries the history, and   *)
(* later stores the candidate's turn and the AI turn at the indices it     *)
(* derived from the history it read and commits.  Nothing locks the        *)
(* transcript between the two steps.                                       *)
(***************************************************************************)
\* routers/sajilo_chat.py lines 29-32: chat_with_ai reads the history
chat_with_ai_query(s, p) ==
    /\ Free(s)
    /\ p \in DOMAIN extended_persons
    /\ Len(SelectTurns(p)) + 2 <= MaxChatTurns
    /\ sess' = [sess EXCEPT ![s] =
                    [IdleSession EXCEPT !.pc = "chat_with_ai", !.p = p,
                                        !.turns = SelectTurns(p)]]
    /\ UNCHANGED <<scoring_engine, extended_persons, extended_job_cache, chat_turns,
                   candidate_signals, candidate_scores, last_call>>

\* chat_engine.py lines 88-131: generate_response on the history read
generate_response_store(s, user_message) ==
    /\ sess[s].pc = "chat_with_ai"
    /\ \E api_jobs_ok \in BOOLEAN, gpt_ok \in BOOLEAN :
        LET p == sess[s].p
            chat_history == sess[s].turns
            current_turn == Len(chat_history)
            next_intent == _determine_next_intent(chat_history)
        IN  /\ extended_job_cache' =
                  JobCacheAfter(extended_persons[p].job_id, api_jobs_ok)
            /\ chat_turns' =
                  IF gpt_ok
                  THEN chat_turns \o
                       <<ChatTurn(p, current_turn, "user",
                                  UserTurnIntent(chat_history), user_message),
                         ChatTurn(p, current_turn + 1, "ai", next_intent, AiText)>>
                  ELSE chat_turns
    /\ sess' = [sess EXCEPT ![s] = IdleSession]
    /\ UNCHANGED <<scoring_engine, extended_persons, candidate_signals,
                   candidate_scores, last_call>>

\* routers/sajilo_adaptive_interview.py lines 127-130:
\* continue_adaptive_interview reads the history
continue_adaptive_interview_query(s, p) ==
    /\ Free(s)
    /\ p \in DOMAIN extended_persons
    /\ Len(SelectTurns(p)) + 2 <= MaxChatTurns
    /\ sess' = [sess EXCEPT ![s] =
                    [IdleSession EXCEPT !.pc = "continue_adaptive_interview", !.p = p,
                                        !.turns = SelectTurns(p)]]
    /\ UNCHANGED <<scoring_engine, extended_persons, extended_job_cache, chat_turns,
                   candidate_signals, candidate_scores, last_call>>

\* lines 132-218: the turns continue_adaptive_interview stores
continue_adaptive_interview_store(s, user_message) ==
    /\ sess[s].pc = "continue_adaptive_interview"
    /\ \E api_jobs_ok \in BOOLEAN, question_ok \in BOOLEAN :
        LET p == sess[s].p
            history == sess[s].turns
            user_turn_index == Len(history)
            ai_turns == SelectSeq(history, LAMBDA t : t.role = "ai")
            current_question_number == Len(ai_turns) - 1
            interview_complete == current_question_number >= Len(question_sequence)
            planned_question == PlannedQuestion(current_question_number)
            question_intent ==
                IF question_ok
                THEN _generate_specific_question(planned_question.category,
                                                 planned_question.focus)
                ELSE "skill_probe"
            user_turn == ChatTurn(p, user_turn_index, "user", "other", user_message)
        IN  /\ extended_job_cache' =
                  JobCacheAfter(extended_persons[p].job_id, api_jobs_ok)
            /\ IF interview_complete
               THEN /\ chat_turns' =
                          chat_turns \o
                          <<user_turn,
                            ChatTurn(p, user_turn_index + 1, "ai", "other", AiText)>>
                    /\ \/ \E resp \in AIResponses :
                             LET scoring_result == _parse_ai_scoring_response(resp)
                             IN  /\ candidate_scores' =
                                       Upsert(candidate_scores, p,
                                              ScoreRow(p, scoring_result.overall_fit_score,
                                                       scoring_result.fit_bucket))
                                 /\ candidate_signals' =
                                       Upsert(candidate_signals, p,
                                              AISignals(p, scoring_result))
                       \/ /\ candidate_scores' =
                                Upsert(candidate_scores, p,
                                       ScoreRow(p, FallbackScore(extended_persons[p]),
                                                FallbackBucket(
                                                    FallbackScore(extended_persons[p]))))
                          /\ UNCHANGED candidate_signals
                    /\ last_call' = [last_call EXCEPT ![p] = Null]
               ELSE /\ chat_turns' =
                          chat_turns \o
                          <<user_turn,
                            ChatTurn(p, user_turn_index + 1, "ai", question_intent,
                                     AiText)>>
                    /\ UNCHANGED <<candidate_signals, candidate_scores, last_call>>
    /\ sess' = [sess EXCEPT ![s] = IdleSession]
    /\ UNCHANGED <<scoring_engine, extended_persons>>

\* the candidate has been greeted (turn 0) or not yet
RequestInit ==
    /\ scoring_engine = ScoringEngine(DefaultSettings)
    /\ extended_persons \in {[p \in Persons |-> prof] : prof \in ServiceProfiles(1)}
    /\ extended_job_cache = NoRows
    /\ chat_turns \in {<<>>, <<ChatTurn(1, 0, "ai", "other", AiText)>>}
    /\ candidate_signals = NoRows
    /\ candidate_scores = NoRows
    /\ sess = [s \in Sessions |-> IdleSession]
    /\ last_call = [p \in Persons |-> Null]

RequestNext ==
    \/ \E s \in Sessions, p \in Persons : chat_with_ai_query(s, p)
    \/ \E s \in Sessions, m \in UserMessages : generate_response_store(s, m)
    \/ \E s \in Sessions, p \in Persons : continue_adaptive_interview_query(s, p)
    \/ \E s \in Sessions, m \in UserMessages : continue_adaptive_interview_store(s, m)

RequestSpec == RequestInit /\ [][RequestNext]_vars

\* the turn_index values stored for person p
TurnIndices(p) == {OwnTurns(p)[i].turn_index : i \in 1..Len(OwnTurns(p))}

\* C30: however the chat requests of one person interleave, no two of the
\* person's stored turns share a turn_index and the indices stored are
\* exactly 0 .. n-1 for the n turns of the person.
C30_TurnIndicesContiguous ==
    \A p \in Persons :
        /\ \A i, j \in 1..Len(OwnTurns(p)) :
              i # j => OwnTurns(p)[i].turn_index # OwnTurns(p)[j].turn_index
        /\ TurnIndices(p) = 0..(Len(OwnTurns(p)) - 1)

=============================================================================
